---- MODULE Spec2Model ----
(***************************************************************************)
(* envoyage control plane: the service registry (internal/registry), the   *)
(* per-node snapshot builder and the xDS server's rebuild loop             *)
(* (internal/xds), the configuration they are wired from                   *)
(* (internal/config), the handlers of the management API                   *)
(* (cmd/controlplane) and the container watcher (internal/docker).         *)
(*                                                                         *)
(* Strings that the code only compares or concatenates (service names,     *)
(* domains, node ids, version labels) are TLA+ strings.  Strings that the  *)
(* code scans byte by byte (upstream addresses, the WireGuard host and the *)
(* ingress port they are formatted from) are sequences of one-character    *)
(* strings.  A uint32 is a record [hi, lo] of two 16-bit limbs, so that    *)
(* arithmetic modulo 2^32 stays inside the model checker's range.          *)
(***************************************************************************)
EXTENDS Integers, Sequences, FiniteSets, TLC

(***************************************************************************)
(* Bounds of the model.                                                    *)
(***************************************************************************)
\* accepted mutations issued in one run (caps the version counter)
MaxVersion == 3

(***************************************************************************)
(* Threads.  main() runs NewServer and Seed and then starts the goroutines *)
(* that serve the management API and the container watcher; these are the *)
(* concurrent callers of the registry.                                     *)
(***************************************************************************)
Main == "main"
Workers == {"w1", "w2"}
Threads == {Main} \cup Workers

(***************************************************************************)
(* Character data.                                                         *)
(***************************************************************************)
\* the ASCII codes 45..58 and 97..122, the characters the model's strings use
LowChars == <<"-", ".", "/", "0", "1", "2", "3", "4", "5", "6", "7", "8", "9", ":">>
Letters == <<"a", "b", "c", "d", "e", "f", "g", "h", "i", "j", "k", "l", "m",
             "n", "o", "p", "q", "r", "s", "t", "u", "v", "w", "x", "y", "z">>

\* the code point of a character (a Go rune)
Ord(c) ==
    IF \E i \in 1..Len(LowChars) : LowChars[i] = c
    THEN 44 + (CHOOSE i \in 1..Len(LowChars) : LowChars[i] = c)
    ELSE 96 + (CHOOSE i \in 1..Len(Letters) : Letters[i] = c)

WebA == <<"w", "e", "b", "-", "a", ":", "5", "6", "7", "8">>
WebB == <<"w", "e", "b", "-", "b", ":", "5", "6", "7", "8">>
DbAddr == <<"1", "0", ".", "0", ".", "0", ".", "5", ":", "8", "0", "8", "0">>

(***************************************************************************)
(* uint32 arithmetic on 16-bit limbs.                                      *)
(***************************************************************************)
Limb == 65536

\* uint32(n) for an int32 n (two's complement for a negative n)
U32(n) ==
    IF n >= 0
    THEN [hi |-> n \div Limb, lo |-> n % Limb]
    ELSE [hi |-> Limb - 1 - ((-n - 1) \div Limb), lo |-> (Limb - 1) - ((-n - 1) % Limb)]

\* a*10 + d modulo 2^32
MulAdd10(a, d) ==
    LET lo == a.lo * 10 + d.lo
        hi == a.hi * 10 + d.hi + (lo \div Limb)
    IN  [hi |-> hi % Limb, lo |-> lo % Limb]

(***************************************************************************)
(* internal/config                                                         *)
(***************************************************************************)
EnvKeys == {"ENVOYAGE_HOME_NODE_ID", "ENVOYAGE_VPS_NODE_ID",
            "ENVOYAGE_HOME_WG_IP", "ENVOYAGE_HOME_ENVOY_PORT"}

\* the process environment with nothing set: os.Getenv yields the empty string
EmptyEnv ==
    [ENVOYAGE_HOME_NODE_ID |-> "", ENVOYAGE_VPS_NODE_ID |-> "",
     ENVOYAGE_HOME_WG_IP |-> <<>>, ENVOYAGE_HOME_ENVOY_PORT |-> <<>>]

\* getEnv: the variable's value, or fallback if it is unset or empty
getEnv(env, key, fallback) ==
    IF Len(env[key]) # 0 THEN env[key] ELSE fallback

\* config.Load
Load(env) ==
    [HomeNodeID    |-> getEnv(env, "ENVOYAGE_HOME_NODE_ID", "envoyage-envoy-home"),
     VPSNodeID     |-> getEnv(env, "ENVOYAGE_VPS_NODE_ID", "envoyage-envoy-vps"),
     HomeWGIP      |-> getEnv(env, "ENVOYAGE_HOME_WG_IP",
                              <<"e", "n", "v", "o", "y", "-", "h", "o", "m", "e">>),
     HomeEnvoyPort |-> getEnv(env, "ENVOYAGE_HOME_ENVOY_PORT",
                              <<"1", "0", "0", "0", "0">>)]

\* Config.HomeEnvoyIngress: "HomeWGIP:HomeEnvoyPort"
HomeEnvoyIngress(c) == c.HomeWGIP \o <<":">> \o c.HomeEnvoyPort

\* Config.NodeIDs
NodeIDs(c) == <<c.HomeNodeID, c.VPSNodeID>>

(***************************************************************************)
(* internal/xds: the snapshot builder                                      *)
(***************************************************************************)
homeEnvoyNodeID == "envoyage-envoy-home"

homeEnvoyIngress ==
    <<"e", "n", "v", "o", "y", "-", "h", "o", "m", "e", ":", "1", "0", "0", "0", "0">>

\* lastColon, had the scan run from the left
lastColon_Leftmost(upstream, i) ==
    IF \A j \in 1..i : upstream[j] # ":" THEN 0
    ELSE CHOOSE j \in 1..i : upstream[j] = ":" /\ \A k \in 1..(j - 1) : upstream[k] # ":"

\* the index of the rightmost ':' at or below i, 0 if there is none
RECURSIVE lastColon(_, _)
lastColon(upstream, i) ==
    IF i < 1 THEN 0
    ELSE IF upstream[i] = ":" THEN i
    ELSE lastColon(upstream, i - 1)

\* the loop  port = port*10 + uint32(c-'0')  over the characters after the ':':
\* one round takes the next character h, its code c, the digit d = uint32(c-'0')
\* and the new port p, and goes on with the rest
RECURSIVE parsePort(_, _)
parsePort(digits, port) ==
    IF digits = <<>> THEN port
    ELSE CHOOSE r \in
            {parsePort(Tail(digits), p) :
                p \in {MulAdd10(port, d) :
                    d \in {U32(c - 48) :
                        c \in {Ord(h) : h \in {Head(digits)}}}}} : TRUE

\* splitHostPort: cut at the rightmost ':' (the index is found once, then used)
splitHostPort(upstream) ==
    CHOOSE r \in
        {IF i = 0
         THEN [host |-> upstream, port |-> U32(0)]
         ELSE [host |-> SubSeq(upstream, 1, i - 1),
               port |-> parsePort(SubSeq(upstream, i + 1, Len(upstream)), U32(0))] :
            i \in {lastColon(upstream, Len(upstream))}} : TRUE

makeAddress(host, port) ==
    [Protocol |-> "TCP", Address |-> host, PortValue |-> port]

makeCluster(name, upstream) ==
    LET hp == splitHostPort(upstream)
    IN  [Name |-> name,
         Type |-> "STRICT_DNS",
         ConnectTimeoutSeconds |-> 5,
         LoadAssignment |->
            [ClusterName |-> name,
             Endpoints |-> << [LbEndpoints |->
                                 << [Address |-> makeAddress(hp.host, hp.port)] >>] >>]]

\* makeVirtualHost, had the route named the service instead of its cluster
makeVirtualHost_RoutesToName(name, domain, clusterName) ==
    [Name |-> name,
     Domains |-> <<domain>>,
     Routes |-> << [Match |-> [Prefix |-> "/"],
                    Action |-> [Cluster |-> name]] >>]

\* makeVirtualHost, had the virtual host matched every Host header
makeVirtualHost_AnyDomain(name, domain, clusterName) ==
    [Name |-> name,
     Domains |-> <<"*">>,
     Routes |-> << [Match |-> [Prefix |-> "/"],
                    Action |-> [Cluster |-> clusterName]] >>]

makeVirtualHost(name, domain, clusterName) ==
    [Name |-> name,
     Domains |-> <<domain>>,
     Routes |-> << [Match |-> [Prefix |-> "/"],
                    Action |-> [Cluster |-> clusterName]] >>]

makeRouteConfig(name, virtualHosts) ==
    [Name |-> name, VirtualHosts |-> virtualHosts]

\* anypb.New cannot fail on these fixed messages, so err is always nil
makeHTTPListener(name, port, routeConfigName) ==
    [err |-> FALSE,
     val |->
       [Name |-> name,
        Address |-> [Protocol |-> "TCP", Address |-> "0.0.0.0", PortValue |-> port],
        FilterChains |->
          << [Filters |->
                << [Name |-> "envoy.filters.network.http_connection_manager",
                    TypedConfig |->
                      [StatPrefix |-> "ingress_http",
                       Rds |-> [ConfigSource |-> "ADS",
                                ResourceApiVersion |-> "V3",
                                RouteConfigName |-> routeConfigName],
                       HttpFilters |-> << [Name |-> "envoy.filters.http.router",
                                           TypedConfig |-> "Router"] >>]] >>] >>]]

\* the resources of one type, indexed by name (a later duplicate replaces an
\* earlier one); the resource list is taken once, as its
ByName(items) ==
    CHOOSE r \in
        {[n \in {its[i].Name : i \in 1..Len(its)} |->
             its[CHOOSE i \in 1..Len(its) :
                    /\ its[i].Name = n
                    /\ \A j \in (i + 1)..Len(its) : its[j].Name # n]] :
            its \in {items}} : TRUE

\* cachev3.NewSnapshot
NewSnapshot(versionStr, clusters, routeConfigs, listeners) ==
    [Version |-> versionStr,
     Clusters |-> ByName(clusters),
     Routes |-> ByName(routeConfigs),
     Listeners |-> ByName(listeners)]

\* the route configuration names the listeners of a snapshot ask for over RDS
ListenerRouteRefs(snap) ==
    UNION {UNION {{snap.Listeners[l].FilterChains[c].Filters[f].TypedConfig.Rds.RouteConfigName :
                      f \in 1..Len(snap.Listeners[l].FilterChains[c].Filters)} :
                  c \in 1..Len(snap.Listeners[l].FilterChains)} :
           l \in DOMAIN snap.Listeners}

\* cachev3.Snapshot.Consistent: the route configurations the listeners reference
\* are exactly the route resources of the snapshot.  (The endpoint check is empty
\* here: STRICT_DNS clusters carry their endpoints inline and reference none.)
Consistent(snap) == ListenerRouteRefs(snap) = DOMAIN snap.Routes

\* fmt.Sprintf("v%d", version)
VersionStr(version) == "v" \o ToString(version)

\* fmt.Sprintf("cluster_%s", name)
ClusterName(name) == "cluster_" \o name

\* Build without the split-horizon decision: every node gets the service's upstream
Build_NoSplit(nodeID, svcs, ver) ==
    LET clusters == [i \in 1..Len(svcs) |->
                        makeCluster(ClusterName(svcs[i].Name), svcs[i].Upstream)]
        routes == [i \in 1..Len(svcs) |->
                        makeVirtualHost(svcs[i].Name, svcs[i].Domain,
                                        ClusterName(svcs[i].Name))]
        routeConfig == makeRouteConfig("local_routes", routes)
        lis == makeHTTPListener("listener_http", U32(10000), "local_routes")
    IN  IF lis.err THEN [err |-> TRUE, snap |-> <<>>]
        ELSE CHOOSE r \in
                {IF ~Consistent(snap) THEN [err |-> TRUE, snap |-> <<>>]
                 ELSE [err |-> FALSE, snap |-> snap] :
                    snap \in {NewSnapshot(VersionStr(ver), clusters,
                                          <<routeConfig>>, <<lis.val>>)}} : TRUE

\* Build, had the edge nodes got one shared cluster for the home ingress
\* instead of one cluster per service
Build_SharedEdgeCluster(nodeID, svcs, ver) ==
    LET isEdge == nodeID # homeEnvoyNodeID
        clusterOf(svc) == IF isEdge THEN "cluster_home" ELSE ClusterName(svc.Name)
        upstreamOf(svc) == IF isEdge THEN homeEnvoyIngress ELSE svc.Upstream
        clusters == [i \in 1..Len(svcs) |->
                        makeCluster(clusterOf(svcs[i]), upstreamOf(svcs[i]))]
        routes == [i \in 1..Len(svcs) |->
                        makeVirtualHost(svcs[i].Name, svcs[i].Domain, clusterOf(svcs[i]))]
        routeConfig == makeRouteConfig("local_routes", routes)
        lis == makeHTTPListener("listener_http", U32(10000), "local_routes")
    IN  IF lis.err THEN [err |-> TRUE, snap |-> <<>>]
        ELSE CHOOSE r \in
                {IF ~Consistent(snap) THEN [err |-> TRUE, snap |-> <<>>]
                 ELSE [err |-> FALSE, snap |-> snap] :
                    snap \in {NewSnapshot(VersionStr(ver), clusters,
                                          <<routeConfig>>, <<lis.val>>)}} : TRUE

\* SnapshotBuilder.Build: [err, snap]
Build(nodeID, svcs, ver) ==
    LET isEdge == nodeID # homeEnvoyNodeID
        upstreamOf(svc) == IF isEdge THEN homeEnvoyIngress ELSE svc.Upstream
        clusters == [i \in 1..Len(svcs) |->
                        makeCluster(ClusterName(svcs[i].Name), upstreamOf(svcs[i]))]
        routes == [i \in 1..Len(svcs) |->
                        makeVirtualHost(svcs[i].Name, svcs[i].Domain,
                                        ClusterName(svcs[i].Name))]
        routeConfig == makeRouteConfig("local_routes", routes)
        lis == makeHTTPListener("listener_http", U32(10000), "local_routes")
    IN  IF lis.err THEN [err |-> TRUE, snap |-> <<>>]
        ELSE CHOOSE r \in
                {IF ~Consistent(snap) THEN [err |-> TRUE, snap |-> <<>>]
                 ELSE [err |-> FALSE, snap |-> snap] :
                    snap \in {NewSnapshot(VersionStr(ver), clusters,
                                          <<routeConfig>>, <<lis.val>>)}} : TRUE

(***************************************************************************)
(* State.                                                                  *)
(***************************************************************************)
VARIABLES
    cfg,            \* the configuration main() loaded
    services,       \* Registry.services: name -> Service
    version,        \* Registry.version
    onChange,       \* Registry.onChange: "nil" or the hook NewServer installs
    writer,         \* Registry.mu: the thread that has called Lock and not yet Unlock
    readers,        \* Registry.mu: the threads holding a read lock
    cache,          \* Server.cache: node id -> installed snapshot
    pc,             \* where each thread is
    op,             \* the call each thread is in, or returned from last
    arg,            \* that call's argument
    ret,            \* that call's result
    cb,             \* the local cb of Add/Remove/Update
    snap,           \* the (services, version) a thread got from Snapshot()
    idx,            \* rebuildSnapshots: the position in the node list
    hookCalls,      \* history: how often the change hook has been invoked
    okReturns,      \* history: how many Add/Remove/Update calls returned nil
    installedFrom,  \* history: node id -> the Build arguments of the installed snapshot
    errLog,         \* the rebuild failures written to the log
    refs,           \* per thread: which object each entry of snap[t].svcs is
    req,            \* per thread: the HTTP request or container event being handled
    resp,           \* per thread: the HTTP status written for req, 0 before that
    docker,         \* the container runtime and what the watcher did with it
    proc,           \* main() from Serve on: the context, the listener, the gRPC server
    past,           \* history: past[N] is the service map right after the N-th mutation
    owner,          \* per map key: the caller that still holds the stored object
    track           \* which of past and owner this run keeps a record of

vars == <<cfg, services, version, onChange, writer, readers, cache, pc, op, arg,
          ret, cb, snap, idx, hookCalls, okReturns, installedFrom, errLog, refs,
          req, resp, docker, proc, past, owner, track>>

regVars == <<services, version, onChange>>
lockVars == <<writer, readers>>
cacheVars == <<cache, installedFrom>>
adapterVars == <<req, resp, docker>>

NoThread == "none"
EmptyMap == [n \in {} |-> n]
NoSnap == [svcs |-> <<>>, ver |-> 0]
NoArg == [Name |-> ""]
NoReq == [kind |-> "none"]
NoDocker == [phase |-> "off", running |-> {}, todo |-> {}, names |-> EmptyMap,
             last |-> NoReq]
NoProc == [ctx |-> "live", main |-> "main", lis |-> "none", grpc |-> "none",
           stopper |-> "none", streams |-> {}, err |-> "none"]

Mutators == {"Add", "Remove", "Update"}

(***************************************************************************)
(* The inputs callers draw from.                                           *)
(***************************************************************************)
Names == {"web", "db"}

ServicePool ==
    {[Name |-> "web", Domain |-> "web.example.com", Upstream |-> WebA],
     [Name |-> "web", Domain |-> "web.example.com", Upstream |-> WebB],
     [Name |-> "db", Domain |-> "db.example.com", Upstream |-> DbAddr]}

\* the name a worker keeps to when the workers use disjoint names
OwnName(t) == IF t = "w1" THEN "web" ELSE "db"

\* every order in which ranging over the service map can yield its entries
Orders(m) ==
    {s \in [1..Cardinality(DOMAIN m) -> DOMAIN m] :
        \A i, j \in 1..Cardinality(DOMAIN m) : i # j => s[i] # s[j]}

(***************************************************************************)
(* Init: the process after config.Load and registry.New, before NewServer. *)
(***************************************************************************)
Boot(env, ghosts) ==
    /\ cfg = Load(env)
    /\ services = EmptyMap
    /\ version = 0
    /\ onChange = "nil"
    /\ writer = NoThread
    /\ readers = {}
    /\ cache = EmptyMap
    /\ pc = [t \in Threads |-> IF t = Main THEN "start" ELSE "idle"]
    /\ op = [t \in Threads |-> "none"]
    /\ arg = [t \in Threads |-> NoArg]
    /\ ret = [t \in Threads |-> "none"]
    /\ cb = [t \in Threads |-> "nil"]
    /\ snap = [t \in Threads |-> NoSnap]
    /\ idx = [t \in Threads |-> 0]
    /\ hookCalls = 0
    /\ okReturns = 0
    /\ installedFrom = EmptyMap
    /\ errLog = <<>>
    /\ refs = [t \in Threads |-> <<>>]
    /\ req = [t \in Threads |-> NoReq]
    /\ resp = [t \in Threads |-> 0]
    /\ docker = NoDocker
    /\ proc = NoProc
    /\ past = <<>>
    /\ owner = EmptyMap
    /\ track = ghosts

InitWith(env) == Boot(env, {})

Init == InitWith(EmptyEnv)

(***************************************************************************)
(* sync.RWMutex.  Lock first excludes other writers and new readers, then  *)
(* waits for the active readers to leave.                                  *)
(***************************************************************************)
\* Lock, had it not waited for the writer that holds or awaits the lock
LockAnnounce_NoExclusion(t) ==
    /\ pc[t] = "lock"
    /\ writer' = t
    /\ pc' = [pc EXCEPT ![t] = "drain"]
    /\ UNCHANGED <<cfg, track, proc, past, owner, adapterVars, errLog, refs,
                   regVars, readers, cacheVars, op, arg, ret, cb, snap, idx,
                   hookCalls, okReturns>>

\* mu.Lock, first half: become the pending writer
LockAnnounce(t) ==
    /\ pc[t] = "lock"
    /\ writer = NoThread
    /\ writer' = t
    /\ pc' = [pc EXCEPT ![t] = "drain"]
    /\ UNCHANGED <<cfg, track, proc, past, owner, adapterVars, errLog, refs,
                   regVars, readers, cacheVars, op, arg, ret, cb, snap, idx,
                   hookCalls, okReturns>>

\* mu.Lock, second half: the active readers have left
LockAcquire(t) ==
    /\ pc[t] = "drain"
    /\ readers = {}
    /\ pc' = [pc EXCEPT ![t] = "crit"]
    /\ UNCHANGED <<cfg, track, proc, past, owner, adapterVars, errLog, refs,
                   regVars, lockVars, cacheVars, op, arg, ret, cb, snap, idx,
                   hookCalls, okReturns>>

\* RLock, had it let readers in beside a writer
RLock_IgnoresWriter(t) ==
    /\ pc[t] = "rlock"
    /\ readers' = readers \cup {t}
    /\ pc' = [pc EXCEPT ![t] = "read"]
    /\ UNCHANGED <<cfg, track, proc, past, owner, adapterVars, errLog, refs,
                   regVars, writer, cacheVars, op, arg, ret, cb, snap, idx,
                   hookCalls, okReturns>>

\* mu.RLock: blocked while a writer is pending or active
RLock(t) ==
    /\ pc[t] = "rlock"
    /\ writer = NoThread
    /\ readers' = readers \cup {t}
    /\ pc' = [pc EXCEPT ![t] = "read"]
    /\ UNCHANGED <<cfg, track, proc, past, owner, adapterVars, errLog, refs,
                   regVars, writer, cacheVars, op, arg, ret, cb, snap, idx,
                   hookCalls, okReturns>>

(***************************************************************************)
(* internal/registry                                                       *)
(***************************************************************************)
\* who holds the objects of the map once t's mutation has made it newServices:
\* Add and Update store the pointer the caller passed, so the caller holds the
\* object stored under that name; the other entries are the objects they were
Stored(t, newServices) ==
    IF "owner" \notin track THEN owner
    ELSE [n \in DOMAIN newServices |->
            IF op[t] # "Remove" /\ n = arg[t].Name THEN t ELSE owner[n]]

\* the history once a mutation has made the map newServices
Recorded(newServices) ==
    IF "past" \in track THEN Append(past, newServices) ELSE past

\* Reject, had the version been counted before the existence check
Reject_BumpsVersion(t, err) ==
    /\ writer' = NoThread
    /\ version' = version + 1
    /\ ret' = [ret EXCEPT ![t] = err]
    /\ pc' = [pc EXCEPT ![t] = "idle"]
    /\ UNCHANGED <<cfg, track, proc, past, owner, adapterVars, errLog, refs,
                   services, onChange, readers, cacheVars, op, arg, cb, snap, idx,
                   hookCalls, okReturns>>

\* return from Add/Remove/Update with an error: nothing but the result changes
Reject(t, err) ==
    /\ writer' = NoThread
    /\ ret' = [ret EXCEPT ![t] = err]
    /\ pc' = [pc EXCEPT ![t] = "idle"]
    /\ UNCHANGED <<cfg, track, proc, past, owner, adapterVars, errLog, refs,
                   regVars, readers, cacheVars, op, arg, cb, snap, idx,
                   hookCalls, okReturns>>

\* Commit, had the hook been called before Unlock
Commit_HookUnderLock(t, newServices) ==
    /\ services' = newServices
    /\ version' = version + 1
    /\ cb' = [cb EXCEPT ![t] = onChange]
    /\ IF onChange # "nil"
       THEN /\ hookCalls' = hookCalls + 1
            /\ pc' = [pc EXCEPT ![t] = "rlock"]
            /\ UNCHANGED <<ret, okReturns, writer>>
       ELSE /\ ret' = [ret EXCEPT ![t] = "ok"]
            /\ okReturns' = okReturns + 1
            /\ pc' = [pc EXCEPT ![t] = "idle"]
            /\ writer' = NoThread
            /\ UNCHANGED hookCalls
    /\ past' = Recorded(newServices)
    /\ owner' = Stored(t, newServices)
    /\ UNCHANGED <<cfg, track, proc, adapterVars, errLog, refs,
                   onChange, readers, cacheVars, op, arg, snap, idx>>

\* Commit, had it skipped the hook while another rebuild is still running
Commit_SkipsHook(t, newServices) ==
    /\ services' = newServices
    /\ version' = version + 1
    /\ writer' = NoThread
    /\ cb' = [cb EXCEPT ![t] = onChange]
    /\ IF onChange # "nil" /\ \A u \in Threads : pc[u] # "build"
       THEN /\ hookCalls' = hookCalls + 1
            /\ pc' = [pc EXCEPT ![t] = "rlock"]
            /\ UNCHANGED <<ret, okReturns>>
       ELSE /\ ret' = [ret EXCEPT ![t] = "ok"]
            /\ okReturns' = okReturns + 1
            /\ pc' = [pc EXCEPT ![t] = "idle"]
            /\ UNCHANGED hookCalls
    /\ past' = Recorded(newServices)
    /\ owner' = Stored(t, newServices)
    /\ UNCHANGED <<cfg, track, proc, adapterVars, errLog, refs,
                   onChange, readers, cacheVars, op, arg, snap, idx>>

\* where a goroutine is when it calls the hook fn: rebuildSnapshots begins with
\* Snapshot()'s RLock, any other function is simply run
HookEntry(fn) == IF fn = "rebuild" THEN "rlock" ELSE "hook"

\* the tail every accepted mutation shares: version++, cb := r.onChange, Unlock,
\* then cb() if there is one, else return nil
Commit(t, newServices) ==
    /\ services' = newServices
    /\ version' = version + 1
    /\ writer' = NoThread
    /\ cb' = [cb EXCEPT ![t] = onChange]
    /\ IF onChange # "nil"
       THEN /\ hookCalls' = hookCalls + 1
            /\ pc' = [pc EXCEPT ![t] = HookEntry(onChange)]
            /\ UNCHANGED <<ret, okReturns>>
       ELSE /\ ret' = [ret EXCEPT ![t] = "ok"]
            /\ okReturns' = okReturns + 1
            /\ pc' = [pc EXCEPT ![t] = "idle"]
            /\ UNCHANGED hookCalls
    /\ past' = Recorded(newServices)
    /\ owner' = Stored(t, newServices)
    /\ UNCHANGED <<cfg, track, proc, adapterVars, errLog, refs,
                   onChange, readers, cacheVars, op, arg, snap, idx>>

\* Add, had it replaced an existing service instead of refusing
AddBody_Upsert(t) ==
    /\ pc[t] = "crit"
    /\ op[t] = "Add"
    /\ Commit(t, (arg[t].Name :> arg[t]) @@ services)

\* Add, had it stored the service under its domain
AddBody_KeyedByDomain(t) ==
    /\ pc[t] = "crit"
    /\ op[t] = "Add"
    /\ IF arg[t].Name \in DOMAIN services
       THEN Reject(t, "AlreadyExists")
       ELSE Commit(t, (arg[t].Domain :> arg[t]) @@ services)

\* Registry.Add, from the existence check to the hook call
AddBody(t) ==
    /\ pc[t] = "crit"
    /\ op[t] = "Add"
    /\ IF arg[t].Name \in DOMAIN services
       THEN Reject(t, "AlreadyExists")
       ELSE Commit(t, (arg[t].Name :> arg[t]) @@ services)

\* Remove, had it left the entry in the map
RemoveBody_KeepsEntry(t) ==
    /\ pc[t] = "crit"
    /\ op[t] = "Remove"
    /\ IF arg[t].Name \notin DOMAIN services
       THEN Reject(t, "NotFound")
       ELSE Commit(t, services)

\* Remove, had it returned without calling the hook
RemoveBody_NoHook(t) ==
    /\ pc[t] = "crit"
    /\ op[t] = "Remove"
    /\ IF arg[t].Name \notin DOMAIN services
       THEN Reject(t, "NotFound")
       ELSE /\ services' = [n \in DOMAIN services \ {arg[t].Name} |-> services[n]]
            /\ version' = version + 1
            /\ writer' = NoThread
            /\ ret' = [ret EXCEPT ![t] = "ok"]
            /\ okReturns' = okReturns + 1
            /\ pc' = [pc EXCEPT ![t] = "idle"]
            /\ past' = Recorded(services')
            /\ owner' = Stored(t, services')
            /\ UNCHANGED <<cfg, track, proc, adapterVars, errLog, refs, onChange, readers,
                           cacheVars, op, arg, snap, idx, cb, hookCalls>>

\* Remove, had it counted the removal of a name that is not there
RemoveBody_AcceptsAbsent(t) ==
    /\ pc[t] = "crit"
    /\ op[t] = "Remove"
    /\ Commit(t, [n \in DOMAIN services \ {arg[t].Name} |-> services[n]])

\* Registry.Remove
RemoveBody(t) ==
    /\ pc[t] = "crit"
    /\ op[t] = "Remove"
    /\ IF arg[t].Name \notin DOMAIN services
       THEN Reject(t, "NotFound")
       ELSE Commit(t, [n \in DOMAIN services \ {arg[t].Name} |-> services[n]])

\* Update, had it stored the service without the existence check
UpdateBody_Inserts(t) ==
    /\ pc[t] = "crit"
    /\ op[t] = "Update"
    /\ Commit(t, (arg[t].Name :> arg[t]) @@ services)

\* Registry.Update
UpdateBody(t) ==
    /\ pc[t] = "crit"
    /\ op[t] = "Update"
    /\ IF arg[t].Name \notin DOMAIN services
       THEN Reject(t, "NotFound")
       ELSE Commit(t, [services EXCEPT ![arg[t].Name] = arg[t]])

\* OnChange, had it kept a hook that is already registered
OnChangeBody_KeepsFirst(t) ==
    /\ pc[t] = "crit"
    /\ op[t] = "OnChange"
    /\ onChange' = IF onChange = "nil" THEN arg[t].fn ELSE onChange
    /\ writer' = NoThread
    /\ pc' = [pc EXCEPT ![t] = IF t = Main THEN "seed" ELSE "idle"]
    /\ ret' = IF t = Main THEN ret ELSE [ret EXCEPT ![t] = "ok"]
    /\ UNCHANGED <<cfg, track, proc, past, owner, adapterVars, errLog, refs,
                   services, version, readers, cacheVars, op, arg, cb, snap,
                   idx, hookCalls, okReturns>>

\* Registry.OnChange between Lock and Unlock: r.onChange = fn.  Main, which
\* calls it in NewServer, goes on to Seed; another caller has its return.
OnChangeBody(t) ==
    /\ pc[t] = "crit"
    /\ op[t] = "OnChange"
    /\ onChange' = arg[t].fn
    /\ writer' = NoThread
    /\ pc' = [pc EXCEPT ![t] = IF t = Main THEN "seed" ELSE "idle"]
    /\ ret' = IF t = Main THEN ret ELSE [ret EXCEPT ![t] = "ok"]
    /\ UNCHANGED <<cfg, track, proc, past, owner, adapterVars, errLog, refs,
                   services, version, readers, cacheVars, op, arg, cb, snap,
                   idx, hookCalls, okReturns>>

\* Snapshot, had it returned the stored pointers instead of copies
SnapshotBody_SharesObjects(t) ==
    /\ pc[t] = "read"
    /\ \E order \in Orders(services) :
          /\ snap' = [snap EXCEPT ![t] =
                        [svcs |-> [i \in 1..Len(order) |-> services[order[i]]],
                         ver |-> version]]
          /\ refs' = [refs EXCEPT ![t] = order]
    /\ readers' = readers \ {t}
    /\ IF op[t] = "Snapshot"
       THEN /\ ret' = [ret EXCEPT ![t] = "ok"]
            /\ pc' = [pc EXCEPT ![t] = "idle"]
            /\ idx' = idx
       ELSE /\ pc' = [pc EXCEPT ![t] = "build"]
            /\ idx' = [idx EXCEPT ![t] = 1]
            /\ ret' = ret
    /\ UNCHANGED <<cfg, track, proc, past, owner, adapterVars, errLog, regVars, writer, cacheVars, op, arg, cb,
                   hookCalls, okReturns>>

\* Registry.Snapshot between RLock and RUnlock: copies of all services, in the
\* order the map iteration happens to yield, and the version.  Each returned
\* object is a new one ("copy"), none is an object the map points to.
SnapshotBody(t) ==
    /\ pc[t] = "read"
    /\ \E order \in Orders(services) :
          snap' = [snap EXCEPT ![t] =
                     [svcs |-> [i \in 1..Len(order) |-> services[order[i]]],
                      ver |-> version]]
    /\ refs' = [refs EXCEPT ![t] = [i \in 1..Cardinality(DOMAIN services) |-> "copy"]]
    /\ readers' = readers \ {t}
    /\ IF op[t] = "Snapshot"
       THEN /\ ret' = [ret EXCEPT ![t] = "ok"]
            /\ pc' = [pc EXCEPT ![t] = "idle"]
            /\ idx' = idx
       ELSE /\ pc' = [pc EXCEPT ![t] = "build"]
            /\ idx' = [idx EXCEPT ![t] = 1]
            /\ ret' = ret
    /\ UNCHANGED <<cfg, track, proc, past, owner, adapterVars, errLog, regVars, writer, cacheVars, op, arg, cb,
                   hookCalls, okReturns>>

(***************************************************************************)
(* internal/xds: the server                                                *)
(***************************************************************************)
\* NewServer: an empty cache, and reg.OnChange(rebuildSnapshots)
NewServer(t) ==
    /\ pc[t] = "start"
    /\ op' = [op EXCEPT ![t] = "OnChange"]
    /\ arg' = [arg EXCEPT ![t] = [Name |-> "", fn |-> "rebuild"]]
    /\ pc' = [pc EXCEPT ![t] = "lock"]
    /\ UNCHANGED <<cfg, track, proc, past, owner, adapterVars, errLog, refs,
                   regVars, lockVars, cacheVars, ret, cb, snap, idx,
                   hookCalls, okReturns>>

\* Seed: rebuildSnapshots, called from main
Seed(t) ==
    /\ pc[t] = "seed"
    /\ op' = [op EXCEPT ![t] = "Seed"]
    /\ pc' = [pc EXCEPT ![t] = "rlock"]
    /\ UNCHANGED <<cfg, track, proc, past, owner, adapterVars, errLog, refs,
                   regVars, lockVars, cacheVars, arg, ret, cb, snap, idx,
                   hookCalls, okReturns>>

\* Finish, had the hook handed its error on to the caller of the mutation
Finish_ReturnsRebuildError(t, err) ==
    /\ snap' = [snap EXCEPT ![t] = NoSnap]
    /\ refs' = [refs EXCEPT ![t] = <<>>]
    /\ errLog' = IF err = "nil" THEN errLog
                 ELSE Append(errLog, [op |-> op[t], err |-> err,
                                      node |-> NodeIDs(cfg)[idx[t]], ver |-> snap[t].ver])
    /\ idx' = [idx EXCEPT ![t] = 0]
    /\ cb' = [cb EXCEPT ![t] = "nil"]
    /\ IF op[t] = "Seed"
       THEN /\ pc' = [pc EXCEPT ![t] = IF err = "nil" THEN "serve" ELSE "exit"]
            /\ UNCHANGED <<ret, okReturns>>
       ELSE /\ pc' = [pc EXCEPT ![t] = "idle"]
            /\ ret' = [ret EXCEPT ![t] = IF err = "nil" THEN "ok" ELSE "RebuildFailed"]
            /\ okReturns' = IF err = "nil" THEN okReturns + 1 ELSE okReturns

\* rebuildSnapshots is over (err tells how): main goes on to Serve or exits; a
\* hook's error is only logged and the mutation returns nil
Finish(t, err) ==
    /\ snap' = [snap EXCEPT ![t] = NoSnap]
    /\ refs' = [refs EXCEPT ![t] = <<>>]
    /\ errLog' = IF err = "nil" THEN errLog
                 ELSE Append(errLog, [op |-> op[t], err |-> err,
                                      node |-> NodeIDs(cfg)[idx[t]], ver |-> snap[t].ver])
    /\ idx' = [idx EXCEPT ![t] = 0]
    /\ cb' = [cb EXCEPT ![t] = "nil"]
    /\ IF op[t] = "Seed"
       THEN /\ pc' = [pc EXCEPT ![t] = IF err = "nil" THEN "serve" ELSE "exit"]
            /\ UNCHANGED <<ret, okReturns>>
       ELSE /\ pc' = [pc EXCEPT ![t] = "idle"]
            /\ ret' = [ret EXCEPT ![t] = "ok"]
            /\ okReturns' = okReturns + 1

\* RebuildStep, had the loop returned after its first round
RebuildStep_ReturnsEarly(t) ==
    /\ pc[t] = "build"
    /\ LET ids == NodeIDs(cfg)
           nodeID == ids[idx[t]]
       IN  \E b \in {Build(nodeID, snap[t].svcs, snap[t].ver)} :
              /\ cache' = (nodeID :> b.snap) @@ cache
              /\ installedFrom' = (nodeID :> snap[t]) @@ installedFrom
              /\ Finish(t, "nil")
    /\ UNCHANGED <<cfg, track, proc, past, owner, adapterVars, regVars, lockVars, op, arg, hookCalls>>

\* RebuildStep, had it labelled the snapshot with the registry's version at
\* build time instead of the version Snapshot() returned with the services
RebuildStep_CurrentVersion(t) ==
    /\ pc[t] = "build"
    /\ LET ids == NodeIDs(cfg)
           nodeID == ids[idx[t]]
       IN  \E b \in {Build(nodeID, snap[t].svcs, version)} :
              IF b.err
              THEN /\ Finish(t, "build")
                   /\ UNCHANGED cacheVars
              ELSE /\ cache' = (nodeID :> b.snap) @@ cache
                   /\ installedFrom' = (nodeID :> [snap[t] EXCEPT !.ver = version])
                                            @@ installedFrom
                   /\ IF idx[t] = Len(ids)
                      THEN Finish(t, "nil")
                      ELSE /\ idx' = [idx EXCEPT ![t] = idx[t] + 1]
                           /\ UNCHANGED <<pc, ret, cb, snap, okReturns, errLog, refs>>
    /\ UNCHANGED <<cfg, track, proc, past, owner, adapterVars, regVars, lockVars, op, arg, hookCalls>>

\* RebuildStep, had the loop gone through the nodes from the last to the first
RebuildStep_LastNodeFirst(t) ==
    /\ pc[t] = "build"
    /\ LET ids == NodeIDs(cfg)
           nodeID == ids[Len(ids) + 1 - idx[t]]
       IN  \E b \in {Build(nodeID, snap[t].svcs, snap[t].ver)} :
              IF b.err
              THEN /\ Finish(t, "build")
                   /\ UNCHANGED cacheVars
              ELSE /\ cache' = (nodeID :> b.snap) @@ cache
                   /\ installedFrom' = (nodeID :> snap[t]) @@ installedFrom
                   /\ IF idx[t] = Len(ids)
                      THEN Finish(t, "nil")
                      ELSE /\ idx' = [idx EXCEPT ![t] = idx[t] + 1]
                           /\ UNCHANGED <<pc, ret, cb, snap, okReturns, errLog, refs>>
    /\ UNCHANGED <<cfg, track, proc, past, owner, adapterVars, regVars, lockVars, op, arg, hookCalls>>

\* one round of the loop of rebuildSnapshots: Build for the node, SetSnapshot
RebuildStep(t) ==
    /\ pc[t] = "build"
    /\ LET ids == NodeIDs(cfg)
           nodeID == ids[idx[t]]
       IN  \E b \in {Build(nodeID, snap[t].svcs, snap[t].ver)} :
              IF b.err
              THEN /\ Finish(t, "build")
                   /\ UNCHANGED cacheVars
              ELSE /\ cache' = (nodeID :> b.snap) @@ cache
                   /\ installedFrom' = (nodeID :> snap[t]) @@ installedFrom
                   /\ IF idx[t] = Len(ids)
                      THEN Finish(t, "nil")
                      ELSE /\ idx' = [idx EXCEPT ![t] = idx[t] + 1]
                           /\ UNCHANGED <<pc, ret, cb, snap, okReturns, errLog, refs>>
    /\ UNCHANGED <<cfg, track, proc, past, owner, adapterVars, regVars, lockVars, op, arg, hookCalls>>

\* one round of the loop of rebuildSnapshots in which Build ("build") or
\* SetSnapshot ("install") returns an error: rebuildSnapshots wraps it and
\* returns, and nothing is installed for the node
FailKinds == {"build", "install"}

RebuildFail(t, kind) ==
    /\ pc[t] = "build"
    /\ Finish(t, kind)
    /\ UNCHANGED <<cfg, track, proc, past, owner, adapterVars, regVars, lockVars, cacheVars, op, arg, hookCalls>>

(***************************************************************************)
(* The callers: the management API and the container watcher               *)
(***************************************************************************)
\* what a caller may write into a Service it holds
Scribble(s) == [s EXCEPT !.Domain = "changed.example.com", !.Upstream = DbAddr]

\* entry i of thread t's Snapshot() result is the object the map stores under
\* its name
IsStored(t, i) ==
    /\ refs[t][i] \in DOMAIN services
    /\ services[refs[t][i]] = snap[t].svcs[i]

\* a caller writes through the i-th pointer Snapshot() gave it: the write
\* reaches the object, and with it everyone who points to the same object
Modify(t, i) ==
    /\ pc[t] = "idle"
    /\ op[t] = "Snapshot"
    /\ i \in 1..Len(snap[t].svcs)
    /\ snap[t].svcs[i] # Scribble(snap[t].svcs[i])
    /\ snap' = [u \in Threads |->
                  [snap[u] EXCEPT !.svcs =
                      [j \in 1..Len(snap[u].svcs) |->
                          IF \/ u = t /\ j = i
                             \/ IsStored(t, i) /\ refs[u][j] = refs[t][i]
                                               /\ snap[u].svcs[j] = snap[t].svcs[i]
                          THEN Scribble(snap[u].svcs[j])
                          ELSE snap[u].svcs[j]]]]
    /\ services' = IF IsStored(t, i)
                   THEN [services EXCEPT ![refs[t][i]] = Scribble(snap[t].svcs[i])]
                   ELSE services
    /\ UNCHANGED <<cfg, track, proc, past, owner, adapterVars, errLog, refs, version, onChange, lockVars,
                   cacheVars, pc, op, arg, ret, cb, idx, hookCalls, okReturns>>

\* what a caller may write into the Service it passed to Add or Update: every
\* field, the name included
Rewrite(s) == [Scribble(s) EXCEPT !.Name = "renamed"]

\* a caller writes into the Service it passed to Add or Update, after the call
\* has returned: r.services[svc.Name] = svc stored that very object, so the
\* write reaches the map entry that still points to it
ModifyArg(t) ==
    /\ pc[Main] = "serve"
    /\ pc[t] = "idle"
    /\ op[t] \in {"Add", "Update"}
    /\ arg[t] # Rewrite(arg[t])
    /\ arg' = [arg EXCEPT ![t] = Rewrite(arg[t])]
    /\ services' = [n \in DOMAIN services |->
                      IF owner[n] = t THEN Rewrite(services[n]) ELSE services[n]]
    /\ UNCHANGED <<cfg, track, proc, past, owner, adapterVars, errLog, refs, version,
                   onChange, lockVars, cacheVars, pc, op, ret, cb, snap, idx, hookCalls,
                   okReturns>>

\* mutations accepted so far or still able to be
Issued ==
    version + Cardinality({t \in Workers :
                              op[t] \in Mutators /\ pc[t] \in {"lock", "drain", "crit"}})

\* a goroutine enters Add, Remove or Update
Invoke(t, o, a) ==
    /\ pc[Main] = "serve"
    /\ pc[t] = "idle"
    /\ Issued < MaxVersion
    /\ op' = [op EXCEPT ![t] = o]
    /\ arg' = [arg EXCEPT ![t] = a]
    /\ ret' = [ret EXCEPT ![t] = "none"]
    /\ snap' = [snap EXCEPT ![t] = NoSnap]
    /\ refs' = [refs EXCEPT ![t] = <<>>]
    /\ pc' = [pc EXCEPT ![t] = "lock"]
    /\ owner' = [n \in DOMAIN owner |-> IF owner[n] = t THEN NoThread ELSE owner[n]]
    /\ UNCHANGED <<cfg, track, proc, past, errLog, regVars, lockVars, cacheVars, cb, idx,
                   hookCalls, okReturns>>

\* a worker calls Add, Remove or Update
CallMutator(t, o, a) ==
    /\ Invoke(t, o, a)
    /\ UNCHANGED adapterVars

\* a worker calls Snapshot (GET /services)
CallSnapshot(t) ==
    /\ pc[Main] = "serve"
    /\ pc[t] = "idle"
    /\ op' = [op EXCEPT ![t] = "Snapshot"]
    /\ arg' = [arg EXCEPT ![t] = NoArg]
    /\ ret' = [ret EXCEPT ![t] = "none"]
    /\ snap' = [snap EXCEPT ![t] = NoSnap]
    /\ refs' = [refs EXCEPT ![t] = <<>>]
    /\ pc' = [pc EXCEPT ![t] = "rlock"]
    /\ UNCHANGED <<cfg, track, proc, past, owner, adapterVars, errLog, regVars, lockVars, cacheVars, cb, idx, hookCalls,
                   okReturns>>

\* the functions a caller of OnChange passes: none, or one of its own
Hooks == {"nil", "other"}

\* a goroutine calls reg.OnChange(fn)
CallOnChange(t, fn) ==
    /\ pc[Main] = "serve"
    /\ pc[t] = "idle"
    /\ op' = [op EXCEPT ![t] = "OnChange"]
    /\ arg' = [arg EXCEPT ![t] = [Name |-> "", fn |-> fn]]
    /\ ret' = [ret EXCEPT ![t] = "none"]
    /\ pc' = [pc EXCEPT ![t] = "lock"]
    /\ UNCHANGED <<cfg, track, proc, past, owner, adapterVars, errLog, refs, regVars,
                   lockVars, cacheVars, cb, snap, idx, hookCalls, okReturns>>

\* a hook other than rebuildSnapshots returns, and the mutation returns nil
HookReturn(t) ==
    /\ pc[t] = "hook"
    /\ cb' = [cb EXCEPT ![t] = "nil"]
    /\ ret' = [ret EXCEPT ![t] = "ok"]
    /\ okReturns' = okReturns + 1
    /\ pc' = [pc EXCEPT ![t] = "idle"]
    /\ UNCHANGED <<cfg, track, proc, past, owner, adapterVars, errLog, refs, regVars,
                   lockVars, cacheVars, op, arg, snap, idx, hookCalls>>

Call(t, names) ==
    \/ \E s \in {p \in ServicePool : p.Name \in names} :
          \/ CallMutator(t, "Add", s)
          \/ CallMutator(t, "Update", s)
    \/ \E n \in names : CallMutator(t, "Remove", [Name |-> n])
    \/ CallSnapshot(t)

(***************************************************************************)
(* cmd/controlplane: the HTTP handlers.  A request body is a sequence of   *)
(* JSON tokens; a member token is a "key": value pair.                     *)
(***************************************************************************)
StatusOK == 200
StatusCreated == 201
StatusBadRequest == 400
StatusNotFound == 404
StatusConflict == 409

\* a string value is kept in str, except the upstream's, kept as its bytes
Token(tok, key, type, str, bytes) ==
    [tok |-> tok, key |-> key, type |-> type, str |-> str, bytes |-> bytes]
Tok(x) == Token(x, "", "", "", <<>>)
Member(key, val) == Token("member", key, "string", val, <<>>)
UpstreamMember(val) == Token("member", "upstream", "string", "", val)
NumberMember(key) == Token("member", key, "number", "", <<>>)

Object(name, domain, upstream) ==
    <<Tok("{"), Member("name", name), Tok(","), Member("domain", domain), Tok(","),
      UpstreamMember(upstream), Tok("}")>>

\* the bodies clients send: complete requests, and others
ValidBodies == {Object(p.Name, p.Domain, p.Upstream) : p \in ServicePool}

Bodies ==
    ValidBodies
    \cup {Object("", "web.example.com", WebA),
          Object("web", "", WebA),
          Object("web", "web.example.com", <<>>),
          <<Tok("{"), Member("name", "web"), Tok(","), UpstreamMember(WebA), Tok("}")>>,
          <<Tok("{"), NumberMember("name"), Tok(","), Member("domain", "web.example.com"),
            Tok(","), UpstreamMember(WebA), Tok("}")>>,
          <<Tok("{"), Member("name", "web"), Tok(",")>>,
          <<Tok("{"), Member("name", "web"), Tok(","), Tok("}")>>,
          <<Tok("junk")>>,
          <<Tok("null")>>,
          <<>>,
          Object("web", "web.example.com", WebA) \o <<Tok("}"), Tok("junk")>>}

\* var req serviceRequest
ZeroRequest == [Name |-> "", Domain |-> "", Upstream |-> <<>>]

\* what decoding one member does to req: a string goes into the field its key
\* names, other keys are skipped, a number for a string field is a type error
StoreMember(acc, m) ==
    IF m.key \notin {"name", "domain", "upstream"} THEN acc
    ELSE IF m.type # "string" THEN [acc EXCEPT !.err = TRUE]
    ELSE IF m.key = "name" THEN [acc EXCEPT !.req.Name = m.str]
    ELSE IF m.key = "domain" THEN [acc EXCEPT !.req.Domain = m.str]
    ELSE [acc EXCEPT !.req.Upstream = m.bytes]

\* the members of an object from token i on, up to the closing brace; the
\* decoder stops reading there
RECURSIVE DecodeMembers(_, _, _, _)
DecodeMembers(body, i, acc, first) ==
    IF i > Len(body) THEN [acc EXCEPT !.err = TRUE]
    ELSE IF body[i].tok = "}" THEN [acc EXCEPT !.err = acc.err \/ ~first]
    ELSE IF body[i].tok # "member" THEN [acc EXCEPT !.err = TRUE]
    ELSE IF i + 1 > Len(body) THEN [acc EXCEPT !.err = TRUE]
    ELSE IF body[i + 1].tok = "}" THEN StoreMember(acc, body[i])
    ELSE IF body[i + 1].tok = "," THEN
            DecodeMembers(body, i + 2, StoreMember(acc, body[i]), FALSE)
    ELSE [acc EXCEPT !.err = TRUE]

\* json.NewDecoder(r.Body).Decode(&req): decodes the first JSON value of the
\* body into req and does not look at what follows it
Decode(body) ==
    IF body = <<>> THEN [err |-> TRUE, req |-> ZeroRequest]
    ELSE IF body[1].tok = "null" THEN [err |-> FALSE, req |-> ZeroRequest]
    ELSE IF body[1].tok # "{" THEN [err |-> TRUE, req |-> ZeroRequest]
    ELSE DecodeMembers(body, 2, [err |-> FALSE, req |-> ZeroRequest], TRUE)

\* no request of t is waiting for its registry call
NotHandling(t) == req[t] = NoReq \/ resp[t] # 0

\* handleAddService up to the call of reg.Add
HandleAdd(t, body) ==
    /\ pc[Main] = "serve"
    /\ pc[t] = "idle"
    /\ NotHandling(t)
    /\ req' = [req EXCEPT ![t] = [kind |-> "POST", body |-> body]]
    /\ \E d \in {Decode(body)} :
          IF d.err \/ d.req.Name = "" \/ d.req.Domain = "" \/ d.req.Upstream = <<>>
          THEN /\ resp' = [resp EXCEPT ![t] = StatusBadRequest]
               /\ UNCHANGED <<cfg, track, proc, past, owner, errLog, refs, regVars, lockVars, cacheVars, pc, op, arg,
                              ret, cb, snap, idx, hookCalls, okReturns>>
          ELSE /\ resp' = [resp EXCEPT ![t] = 0]
               /\ Invoke(t, "Add", d.req)
    /\ UNCHANGED docker

\* handleRemoveService up to the call of reg.Remove
HandleRemove(t, name) ==
    /\ NotHandling(t)
    /\ req' = [req EXCEPT ![t] = [kind |-> "DELETE", name |-> name]]
    /\ resp' = [resp EXCEPT ![t] = 0]
    /\ Invoke(t, "Remove", [Name |-> name])
    /\ UNCHANGED docker

\* Respond, had handleAddService ignored the error of reg.Add
Respond_IgnoresAddError(t) ==
    /\ req[t].kind \in {"POST", "DELETE"}
    /\ resp[t] = 0
    /\ pc[t] = "idle"
    /\ resp' = [resp EXCEPT ![t] =
                  IF req[t].kind = "POST"
                  THEN StatusCreated
                  ELSE IF ret[t] # "ok" THEN StatusNotFound ELSE StatusOK]
    /\ UNCHANGED <<cfg, track, proc, past, owner, errLog, refs, regVars, lockVars, cacheVars, pc, op, arg, ret, cb,
                   snap, idx, hookCalls, okReturns, req, docker>>

\* both handlers after the registry call has returned: the status they write
Respond(t) ==
    /\ req[t].kind \in {"POST", "DELETE"}
    /\ resp[t] = 0
    /\ pc[t] = "idle"
    /\ resp' = [resp EXCEPT ![t] =
                  IF req[t].kind = "POST"
                  THEN IF ret[t] # "ok" THEN StatusConflict ELSE StatusCreated
                  ELSE IF ret[t] # "ok" THEN StatusNotFound ELSE StatusOK]
    /\ UNCHANGED <<cfg, track, proc, past, owner, errLog, refs, regVars, lockVars, cacheVars, pc, op, arg, ret, cb,
                   snap, idx, hookCalls, okReturns, req, docker>>

(***************************************************************************)
(* internal/docker: the watcher.  A label map is a record of the five      *)
(* labels the watcher reads, an absent label being the empty string; the   *)
(* port label and the addresses are byte sequences.                        *)
(***************************************************************************)
WatcherThread == "w1"

Labels(enable, domain, port, name, compose) ==
    [enable |-> enable, domain |-> domain, port |-> port, name |-> name,
     compose |-> compose]

Addr(last) == <<"1", "0", ".", "0", ".", "0", ".", last>>

\* the containers of the host: one per step of the name resolution order (c1 on
\* two networks, one of them the mesh), one that has not opted in, a second
\* replica of a compose service, whose port label is 0, and five that are
\* mislabelled: no domain, no port, a port that is no number, no address, and
\* an enable label that is not "true"
ContainerPool ==
    {[ID |-> "c1", Name |-> "proj-frontend-1",
      Networks |-> [proj_default |-> Addr("4"), envoyage_mesh |-> Addr("5")],
      Labels |-> Labels("true", "web.example.com", <<"5", "6", "7", "8">>, "web", "frontend")],
     [ID |-> "c2", Name |-> "proj-db-1",
      Networks |-> [proj_default |-> Addr("6")],
      Labels |-> Labels("true", "db.example.com", <<"8", "0", "8", "0">>, "", "db")],
     [ID |-> "c3", Name |-> "cache",
      Networks |-> [bridge |-> Addr("7")],
      Labels |-> Labels("true", "cache.example.com", <<"0", "0", "8", "0">>, "", "")],
     [ID |-> "c4", Name |-> "plain",
      Networks |-> [bridge |-> Addr("8")],
      Labels |-> Labels("", "", <<>>, "", "")],
     [ID |-> "c5", Name |-> "proj-db-2",
      Networks |-> [proj_default |-> Addr("9"), backend |-> <<>>],
      Labels |-> Labels("true", "db.example.com", <<"0">>, "", "db")],
     [ID |-> "c6", Name |-> "nodomain",
      Networks |-> [bridge |-> Addr("2")],
      Labels |-> Labels("true", "", <<"8", "0">>, "nodomain", "")],
     [ID |-> "c7", Name |-> "noport",
      Networks |-> [bridge |-> Addr("2")],
      Labels |-> Labels("true", "noport.example.com", <<>>, "noport", "")],
     [ID |-> "c8", Name |-> "badport",
      Networks |-> [bridge |-> Addr("2")],
      Labels |-> Labels("true", "badport.example.com", <<"h", "t", "t", "p">>, "badport", "")],
     [ID |-> "c9", Name |-> "noip",
      Networks |-> [bridge |-> <<>>],
      Labels |-> Labels("true", "noip.example.com", <<"8", "0">>, "noip", "")],
     [ID |-> "c10", Name |-> "optout",
      Networks |-> [bridge |-> Addr("2")],
      Labels |-> Labels("yes", "optout.example.com", <<"8", "0">>, "optout", "")]}

ContainerIDs == {c.ID : c \in ContainerPool}
WellLabelled == {"c1", "c2", "c3", "c4", "c5"}
Mislabelled == {"c6", "c7", "c8", "c9", "c10"}
Container(id) == CHOOSE c \in ContainerPool : c.ID = id

StopActions == {"stop", "die", "kill"}

\* ContainerInspect: the runtime reports a container's name with a leading slash
Inspect(id) ==
    [Name |-> "/" \o Container(id).Name, Labels |-> Container(id).Labels,
     Networks |-> Container(id).Networks]

\* event.Actor.Attributes: the container's labels, and its name under "name"
Attributes(id) == [name |-> Container(id).Name, labels |-> Container(id).Labels]

\* strings.TrimPrefix(name, "/")
TrimSlash(name) ==
    IF \E c \in ContainerPool : name = "/" \o c.Name
    THEN (CHOOSE c \in ContainerPool : name = "/" \o c.Name).Name
    ELSE name

\* serviceName: the override label, else the compose service label, else ""
serviceName(labels) ==
    IF labels.name # "" THEN labels.name
    ELSE IF labels.compose # "" THEN labels.compose
    ELSE ""

\* strings.Contains(strings.ToLower(name), "envoyage"), for the network names
\* of the pool
IsMesh(network) == network \in {"envoyage_mesh"}

\* containerIP: every address the two loops over the network map can return
\* (the order of a map iteration is not fixed), or the error
containerIP(networks) ==
    LET mesh == {n \in DOMAIN networks : IsMesh(n) /\ networks[n] # <<>>}
        any == {n \in DOMAIN networks : networks[n] # <<>>}
    IN  IF mesh # {} THEN {[err |-> FALSE, ip |-> networks[n]] : n \in mesh}
        ELSE IF any # {} THEN {[err |-> FALSE, ip |-> networks[n]] : n \in any}
        ELSE {[err |-> TRUE, ip |-> <<>>]}

\* a decimal numeral without its leading zeros
RECURSIVE StripZeros(_)
StripZeros(s) ==
    IF Len(s) > 1 /\ s[1] = "0" THEN StripZeros(Tail(s)) ELSE s

\* a > b for numerals of the same length
RECURSIVE NumeralGreater(_, _)
NumeralGreater(a, b) ==
    IF a = <<>> THEN FALSE
    ELSE IF Ord(a[1]) # Ord(b[1]) THEN Ord(a[1]) > Ord(b[1])
    ELSE NumeralGreater(Tail(a), Tail(b))

\* 2^32 - 1
MaxUint32 == <<"4", "2", "9", "4", "9", "6", "7", "2", "9", "5">>

\* ParseUint, had it taken every string for a number
ParseUint_AnyString(s) == [err |-> FALSE, val |-> s]

\* strconv.ParseUint(s, 10, 32): a syntax error unless s is one or more decimal
\* digits, a range error above 2^32 - 1.  The number is kept as the numeral
\* that %d prints for it.
ParseUint(s) ==
    IF s = <<>> \/ \E i \in 1..Len(s) : Ord(s[i]) \notin 48..57
    THEN [err |-> TRUE, val |-> <<>>]
    ELSE \* the numeral is stripped once, as d
         CHOOSE r \in
            {IF Len(d) > Len(MaxUint32)
                \/ (Len(d) = Len(MaxUint32) /\ NumeralGreater(d, MaxUint32))
             THEN [err |-> TRUE, val |-> <<>>]
             ELSE [err |-> FALSE, val |-> d] : d \in {StripZeros(s)}} : TRUE

\* Run: syncExisting lists the running containers (if the listing fails, the
\* sync is given up and Run goes on to the events)
WatcherRun(t) ==
    /\ pc[Main] = "serve"
    /\ docker.phase = "off"
    /\ \E listed \in BOOLEAN :
          docker' = [docker EXCEPT !.phase = "sync",
                                   !.todo = IF listed THEN docker.running ELSE {}]
    /\ UNCHANGED <<cfg, track, proc, past, owner, errLog, refs, regVars, lockVars,
                   cacheVars, pc, op, arg, ret, cb, snap, idx, hookCalls, okReturns,
                   req, resp>>

\* registerByID up to the call of reg.Add: inspect, validate the labels, parse
\* the port, resolve the address and the name.  Every return before reg.Add
\* leaves the registry alone.
registerByID(t, kind, id) ==
    /\ pc[Main] = "serve"
    /\ pc[t] = "idle"
    /\ \E inspected \in BOOLEAN, info \in {Inspect(id)} :
       \E port \in {ParseUint(info.Labels.port)}, addr \in containerIP(info.Networks) :
          IF \/ ~inspected
             \/ info.Labels.enable # "true"
             \/ info.Labels.domain = ""
             \/ info.Labels.port = <<>>
             \/ port.err
             \/ addr.err
          THEN UNCHANGED <<cfg, track, proc, past, owner, errLog, refs, regVars, lockVars,
                           cacheVars, pc, op, arg, ret, cb, snap, idx, hookCalls,
                           okReturns, req, resp>>
          ELSE /\ req' = [req EXCEPT ![t] = [kind |-> kind, id |-> id]]
               /\ resp' = [resp EXCEPT ![t] = 0]
               /\ Invoke(t, "Add",
                         [Name |-> IF serviceName(info.Labels) # ""
                                   THEN serviceName(info.Labels)
                                   ELSE TrimSlash(info.Name),
                          Domain |-> info.Labels.domain,
                          Upstream |-> addr.ip \o <<":">> \o port.val])

\* registerByID, had it returned the error of reg.Add
Upsert_ReturnsConflict(t) ==
    /\ req[t].kind \in {"sync", "start"}
    /\ pc[t] = "idle"
    /\ op[t] = "Add"
    /\ ret[t] = "AlreadyExists"
    /\ req' = [req EXCEPT ![t] = NoReq]
    /\ UNCHANGED <<cfg, track, proc, past, owner, errLog, refs, regVars, lockVars,
                   cacheVars, pc, op, arg, ret, cb, snap, idx, hookCalls, okReturns,
                   resp, docker>>

\* registerByID after reg.Add reported that the name exists: reg.Update
Upsert(t) ==
    /\ req[t].kind \in {"sync", "start"}
    /\ pc[t] = "idle"
    /\ op[t] = "Add"
    /\ ret[t] = "AlreadyExists"
    /\ Invoke(t, "Update", arg[t])
    /\ UNCHANGED adapterVars

\* syncExisting: one round of its loop, which skips a container whose listed
\* labels do not opt in and calls registerByID for the others
SyncOne(t, id) ==
    /\ docker.phase = "sync"
    /\ req[t] = NoReq
    /\ id \in docker.todo
    /\ docker' = [docker EXCEPT !.todo = docker.todo \ {id}]
    /\ IF Container(id).Labels.enable # "true"
       THEN UNCHANGED <<cfg, track, proc, past, owner, errLog, refs, regVars, lockVars,
                        cacheVars, pc, op, arg, ret, cb, snap, idx, hookCalls, okReturns,
                        req, resp>>
       ELSE registerByID(t, "sync", id)

\* syncExisting has gone through its list: Run subscribes to the events
SyncDone(t) ==
    /\ docker.phase = "sync"
    /\ req[t] = NoReq
    /\ docker.todo = {}
    /\ docker' = [docker EXCEPT !.phase = "events"]
    /\ UNCHANGED <<cfg, track, proc, past, owner, errLog, refs, regVars, lockVars, cacheVars, pc, op, arg, ret, cb,
                   snap, idx, hookCalls, okReturns, req, resp>>

\* a container comes up before the watcher runs: no event reaches it
ContainerUp(id) ==
    /\ docker.phase = "off"
    /\ id \notin docker.running
    /\ docker' = [docker EXCEPT !.running = docker.running \cup {id}]
    /\ UNCHANGED <<cfg, track, proc, past, owner, errLog, refs, regVars, lockVars, cacheVars, pc, op, arg, ret, cb,
                   snap, idx, hookCalls, okReturns, req, resp>>

\* handleEvent for a start event
EventStart(t, id) ==
    /\ docker.phase = "events"
    /\ req[t] = NoReq
    /\ id \notin docker.running
    /\ docker' = [docker EXCEPT !.running = docker.running \cup {id}]
    /\ registerByID(t, "start", id)

\* handleEvent for a stop, die or kill event: the name is serviceName of the
\* attributes of the event; without one the handler returns, else reg.Remove
EventStop(t, id, action) ==
    /\ docker.phase = "events"
    /\ req[t] = NoReq
    /\ id \in docker.running
    /\ docker' = [docker EXCEPT !.running = docker.running \ {id}]
    /\ \E attrs \in {Attributes(id)} :
          IF attrs.labels.enable # "true" \/ serviceName(attrs.labels) = ""
          THEN UNCHANGED <<cfg, track, proc, past, owner, errLog, refs, regVars, lockVars, cacheVars, pc, op, arg, ret,
                           cb, snap, idx, hookCalls, okReturns, req, resp>>
          ELSE /\ req' = [req EXCEPT ![t] = [kind |-> action, id |-> id]]
               /\ resp' = [resp EXCEPT ![t] = 0]
               /\ Invoke(t, "Remove", [Name |-> serviceName(attrs.labels)])

\* a further stop, die or kill event of a container whose last such event the
\* watcher has just handled (stopping a container makes the runtime send more
\* than one of them): the container is gone, the handler runs as before
EventStopAgain(t, id, action) ==
    /\ docker.phase = "events"
    /\ req[t] = NoReq
    /\ id \notin docker.running
    /\ docker.last.kind \in StopActions
    /\ docker.last.id = id
    /\ docker' = docker
    /\ \E attrs \in {Attributes(id)} :
          IF attrs.labels.enable # "true" \/ serviceName(attrs.labels) = ""
          THEN UNCHANGED <<cfg, track, proc, past, owner, errLog, refs, regVars, lockVars, cacheVars, pc, op, arg, ret,
                           cb, snap, idx, hookCalls, okReturns, req, resp>>
          ELSE /\ req' = [req EXCEPT ![t] = [kind |-> action, id |-> id]]
               /\ resp' = [resp EXCEPT ![t] = 0]
               /\ Invoke(t, "Remove", [Name |-> serviceName(attrs.labels)])

\* the handler returns to the event loop; an error of the registry is logged
EventDone(t) ==
    /\ req[t] # NoReq
    /\ req[t].kind \in {"sync", "start"} \cup StopActions
    /\ pc[t] = "idle"
    /\ ~(op[t] = "Add" /\ ret[t] = "AlreadyExists")
    /\ req' = [req EXCEPT ![t] = NoReq]
    /\ docker' = [docker EXCEPT
                    !.names = IF req[t].kind \in StopActions
                              THEN [i \in DOMAIN docker.names \ {req[t].id} |-> docker.names[i]]
                              ELSE IF ret[t] = "ok"
                              THEN (req[t].id :> arg[t].Name) @@ docker.names
                              ELSE docker.names,
                    !.last = [kind |-> req[t].kind, id |-> req[t].id,
                              name |-> arg[t].Name, ret |-> ret[t]]]
    /\ UNCHANGED <<cfg, track, proc, past, owner, errLog, refs, regVars, lockVars, cacheVars, pc, op, arg, ret, cb,
                   snap, idx, hookCalls, okReturns, resp>>

(***************************************************************************)
(* cmd/controlplane and internal/xds: Serve and the shutdown.  main() is   *)
(* in this part while pc[Main] = "serve"; proc.main tells how far it is.   *)
(* A grpc.Server that GracefulStop has been called on refuses a later      *)
(* Serve with ErrServerStopped; a Serve that GracefulStop ends returns nil  *)
(* once GracefulStop is through.                                           *)
(***************************************************************************)
\* the process's exit status: os.Exit(1), return from main, or still running
ExitCode ==
    IF pc[Main] = "exit" THEN 1
    ELSE IF pc[Main] = "done" THEN 0
    ELSE -1

\* the process ends, by os.Exit(1) ("exit") or by main returning ("done"), and
\* its goroutines end with it wherever they are
Exited(how) == [t \in Threads |-> IF t = Main THEN how ELSE "killed"]

\* the signal goroutine: a SIGINT or SIGTERM arrives, cancel()
Signal ==
    /\ pc[Main] = "serve"
    /\ proc.ctx = "live"
    /\ proc' = [proc EXCEPT !.ctx = "cancelled"]
    /\ UNCHANGED <<cfg, track, past, owner, adapterVars, errLog, refs, regVars, lockVars,
                   cacheVars, pc, op, arg, ret, cb, snap, idx, hookCalls, okReturns>>

\* ServeListen, had main gone on after Serve reported the failed bind
ServeListen_IgnoresBindError(bound) ==
    /\ pc[Main] = "serve"
    /\ proc.main = "main"
    /\ proc' = IF bound
               THEN [proc EXCEPT !.grpc = "new", !.lis = "open", !.stopper = "waiting",
                                 !.main = "spawned"]
               ELSE [proc EXCEPT !.grpc = "serving", !.err = "bind", !.main = "serving"]
    /\ UNCHANGED <<cfg, track, past, owner, adapterVars, errLog, refs, regVars, lockVars,
                   cacheVars, pc, op, arg, ret, cb, snap, idx, hookCalls, okReturns>>

\* main calls Serve: grpc.NewServer, net.Listen, and either the goroutine that
\* waits for the cancellation is started, or Serve returns the bind error and
\* main exits with status 1
ServeListen(bound) ==
    /\ pc[Main] = "serve"
    /\ proc.main = "main"
    /\ IF bound
       THEN /\ proc' = [proc EXCEPT !.grpc = "new", !.lis = "open",
                                    !.stopper = "waiting", !.main = "spawned"]
            /\ pc' = pc
       ELSE /\ proc' = [proc EXCEPT !.grpc = "new", !.err = "bind", !.main = "returned"]
            /\ pc' = Exited("exit")
    /\ UNCHANGED <<cfg, track, past, owner, adapterVars, errLog, refs, regVars, lockVars,
                   cacheVars, op, arg, ret, cb, snap, idx, hookCalls, okReturns>>

\* return grpcServer.Serve(lis): the server starts accepting, unless
\* GracefulStop has already been called on it; then Serve closes the listener
\* and returns ErrServerStopped, and main exits with status 1
GrpcServe ==
    /\ pc[Main] = "serve"
    /\ proc.main = "spawned"
    /\ IF proc.grpc = "new"
       THEN /\ proc' = [proc EXCEPT !.grpc = "serving", !.main = "serving"]
            /\ pc' = pc
       ELSE /\ proc' = [proc EXCEPT !.lis = "closed", !.err = "stopped",
                                    !.main = "returned"]
            /\ pc' = Exited("exit")
    /\ UNCHANGED <<cfg, track, past, owner, adapterVars, errLog, refs, regVars, lockVars,
                   cacheVars, op, arg, ret, cb, snap, idx, hookCalls, okReturns>>

\* an Envoy opens its ADS stream
StreamOpen(node) ==
    /\ pc[Main] = "serve"
    /\ proc.grpc = "serving"
    /\ node \notin proc.streams
    /\ proc' = [proc EXCEPT !.streams = proc.streams \cup {node}]
    /\ UNCHANGED <<cfg, track, past, owner, adapterVars, errLog, refs, regVars, lockVars,
                   cacheVars, pc, op, arg, ret, cb, snap, idx, hookCalls, okReturns>>

\* a stream ends: the Envoy goes away, or the stream's handler sees ctx.Done()
StreamClose(node) ==
    /\ pc[Main] = "serve"
    /\ node \in proc.streams
    /\ proc' = [proc EXCEPT !.streams = proc.streams \ {node}]
    /\ UNCHANGED <<cfg, track, past, owner, adapterVars, errLog, refs, regVars, lockVars,
                   cacheVars, pc, op, arg, ret, cb, snap, idx, hookCalls, okReturns>>

\* the goroutine of Serve: <-ctx.Done(), then GracefulStop, which closes the
\* listener and waits for the open streams
GracefulStop ==
    /\ pc[Main] = "serve"
    /\ proc.stopper = "waiting"
    /\ proc.ctx = "cancelled"
    /\ proc' = IF proc.grpc = "serving"
               THEN [proc EXCEPT !.grpc = "stopping", !.lis = "closed",
                                 !.stopper = "stopping"]
               ELSE [proc EXCEPT !.grpc = "stopped", !.stopper = "done"]
    /\ UNCHANGED <<cfg, track, past, owner, adapterVars, errLog, refs, regVars, lockVars,
                   cacheVars, pc, op, arg, ret, cb, snap, idx, hookCalls, okReturns>>

\* GracefulStop returns: the last stream has ended
StopDone ==
    /\ pc[Main] = "serve"
    /\ proc.stopper = "stopping"
    /\ proc.streams = {}
    /\ proc' = [proc EXCEPT !.grpc = "stopped", !.stopper = "done"]
    /\ UNCHANGED <<cfg, track, past, owner, adapterVars, errLog, refs, regVars, lockVars,
                   cacheVars, pc, op, arg, ret, cb, snap, idx, hookCalls, okReturns>>

\* grpcServer.Serve returns nil after the graceful stop, and main returns
ServeReturn ==
    /\ pc[Main] = "serve"
    /\ proc.main = "serving"
    /\ proc.grpc = "stopped"
    /\ proc' = [proc EXCEPT !.err = "nil", !.main = "returned"]
    /\ pc' = Exited("done")
    /\ UNCHANGED <<cfg, track, past, owner, adapterVars, errLog, refs, regVars, lockVars,
                   cacheVars, op, arg, ret, cb, snap, idx, hookCalls, okReturns>>

\* what a thread does once it is inside a call: the steps every call shares
CoreStep(t) ==
    \/ LockAnnounce(t)
    \/ LockAcquire(t)
    \/ RLock(t)
    \/ OnChangeBody(t)
    \/ SnapshotBody(t)
    \/ RebuildStep(t)

\* and the critical sections of the three mutators
Step(t) ==
    \/ CoreStep(t)
    \/ AddBody(t)
    \/ RemoveBody(t)
    \/ UpdateBody(t)

MainStep == NewServer(Main) \/ Seed(Main)

Next ==
    \/ MainStep
    \/ \E t \in Threads : Step(t)
    \/ \E t \in Workers : Call(t, Names)

Spec == Init /\ [][Next]_vars

(***************************************************************************)
(* Further specifications.                                                 *)
(***************************************************************************)
\* the concurrent-writers workload: each worker mutates only its own name
CallOwn(t) ==
    \/ \E s \in {p \in ServicePool : p.Name = OwnName(t)} :
          \/ CallMutator(t, "Add", s)
          \/ CallMutator(t, "Update", s)
    \/ CallMutator(t, "Remove", [Name |-> OwnName(t)])

NextDisjoint ==
    \/ MainStep
    \/ \E t \in Threads : Step(t)
    \/ \E t \in Workers : CallOwn(t)

SpecDisjoint == Init /\ [][NextDisjoint]_vars

\* one caller that issues its calls one after the other
SeqCaller == "w1"

NextSeq ==
    \/ MainStep
    \/ \E t \in Threads : Step(t)
    \/ Call(SeqCaller, Names)

SpecSeq == Init /\ [][NextSeq]_vars

\* one caller of the mutators, and a second goroutine that replaces the hook
HookSetter == "w2"

NextHook ==
    \/ NextSeq
    \/ \E fn \in Hooks : CallOnChange(HookSetter, fn)
    \/ HookReturn(SeqCaller)

SpecHook == Init /\ [][NextHook]_vars

\* writers, readers, and readers that write into what Snapshot() returned
NextCopy ==
    \/ MainStep
    \/ \E t \in Threads : Step(t)
    \/ \E t \in Workers :
          \/ CallOwn(t)
          \/ CallSnapshot(t)
          \/ \E i \in 1..Cardinality(Names) : Modify(t, i)

SpecCopy == Init /\ [][NextCopy]_vars

\* one caller of the registry that keeps, and writes into, the Service it
\* passed; the holder of each stored object is tracked
InitOwn == Boot(EmptyEnv, {"owner"})

NextOwn ==
    \/ NextSeq
    \/ ModifyArg(SeqCaller)

SpecOwn == InitOwn /\ [][NextOwn]_vars

\* the management API serving complete POST requests and DELETE requests on
\* two goroutines
NextHTTP ==
    \/ MainStep
    \/ \E t \in Threads : CoreStep(t) \/ AddBody(t) \/ RemoveBody(t)
    \/ \E t \in Workers :
          \/ \E body \in ValidBodies : HandleAdd(t, body)
          \/ \E name \in Names : HandleRemove(t, name)
          \/ Respond(t)

SpecHTTP == Init /\ [][NextHTTP]_vars

\* the management API serving one client that posts bodies of every kind
NextPost ==
    \/ MainStep
    \/ \E t \in Threads : CoreStep(t) \/ AddBody(t)
    \/ \E body \in Bodies : HandleAdd(SeqCaller, body)
    \/ Respond(SeqCaller)

SpecPost == Init /\ [][NextPost]_vars

\* the same client posting complete requests whose upstream is a host alone,
\* or a host with a port string of any kind
PortBodies ==
    {Object(n, "web.example.com", <<"w", "e", "b", "-", "a">> \o rest) :
        n \in Names,
        rest \in {<<>>, <<":">>,
                  <<":", "5", "6", "7", "8">>,
                  <<":", "0">>,
                  <<":", "9", "9", "9", "9", "9">>,
                  <<":", "h", "t", "t", "p">>,
                  <<":", "4", "2", "9", "4", "9", "6", "7", "3", "7", "6">>}}

NextPort ==
    \/ MainStep
    \/ \E t \in Threads : CoreStep(t) \/ AddBody(t)
    \/ \E body \in PortBodies : HandleAdd(SeqCaller, body)
    \/ Respond(SeqCaller)

SpecPort == Init /\ [][NextPort]_vars

\* the container watcher as the only source of mutations
NextWatch ==
    \/ MainStep
    \/ \E t \in Threads : Step(t)
    \/ \E id \in WellLabelled : ContainerUp(id)
    \/ WatcherRun(WatcherThread)
    \/ \E id \in WellLabelled : SyncOne(WatcherThread, id)
    \/ SyncDone(WatcherThread)
    \/ \E id \in WellLabelled :
          \/ EventStart(WatcherThread, id)
          \/ \E action \in StopActions : EventStop(WatcherThread, id, action)
    \/ Upsert(WatcherThread)
    \/ EventDone(WatcherThread)

SpecWatch == Init /\ [][NextWatch]_vars

\* the watcher on a host that runs the two replicas of one compose service,
\* and beside it a goroutine of the management API that serves DELETE requests
\* for that service
ApiThread == "w2"
Replicas == {"c2", "c5"}

NextRace ==
    \/ MainStep
    \/ \E t \in Threads : Step(t)
    \/ \E id \in Replicas : ContainerUp(id)
    \/ WatcherRun(WatcherThread)
    \/ \E id \in Replicas : SyncOne(WatcherThread, id)
    \/ SyncDone(WatcherThread)
    \/ \E id \in Replicas :
          \/ EventStart(WatcherThread, id)
          \/ \E action \in StopActions : EventStop(WatcherThread, id, action)
    \/ Upsert(WatcherThread)
    \/ EventDone(WatcherThread)
    \/ HandleRemove(ApiThread, serviceName(Container("c2").Labels))
    \/ Respond(ApiThread)

SpecRace == Init /\ [][NextRace]_vars

\* the watcher on a host with one container named by its label and one named
\* by itself, where the events of a stopping container come several at a time
Stopping == {"c1", "c3"}

NextStop ==
    \/ MainStep
    \/ \E t \in Threads : Step(t)
    \/ \E id \in Stopping : ContainerUp(id)
    \/ WatcherRun(WatcherThread)
    \/ \E id \in Stopping : SyncOne(WatcherThread, id)
    \/ SyncDone(WatcherThread)
    \/ \E id \in Stopping :
          \/ EventStart(WatcherThread, id)
          \/ \E action \in StopActions :
                \/ EventStop(WatcherThread, id, action)
                \/ EventStopAgain(WatcherThread, id, action)
    \/ Upsert(WatcherThread)
    \/ EventDone(WatcherThread)

SpecStop == Init /\ [][NextStop]_vars

\* the watcher on a host with the mislabelled containers and one it registers
Labelled == Mislabelled \cup {"c3"}

NextLabels ==
    \/ MainStep
    \/ \E t \in Threads : Step(t)
    \/ \E id \in Labelled : ContainerUp(id)
    \/ WatcherRun(WatcherThread)
    \/ \E id \in Labelled : SyncOne(WatcherThread, id)
    \/ SyncDone(WatcherThread)
    \/ \E id \in Labelled :
          \/ EventStart(WatcherThread, id)
          \/ \E action \in StopActions : EventStop(WatcherThread, id, action)
    \/ Upsert(WatcherThread)
    \/ EventDone(WatcherThread)

SpecLabels == Init /\ [][NextLabels]_vars

\* the sequential caller when builds and installs can fail
NextFail ==
    \/ NextSeq
    \/ \E t \in Threads, kind \in FailKinds : RebuildFail(t, kind)

SpecFail == Init /\ [][NextFail]_vars

\* concurrent writers, with the history of the service map on record
InitHist == Boot(EmptyEnv, {"past"})

SpecHist == InitHist /\ [][NextDisjoint]_vars

\* the process from NewServer to its end: Seed with builds and installs that
\* can fail, Serve with a bind that can fail, the Envoys' streams, a client of
\* the management API, and the shutdown signal
NextServe ==
    \/ MainStep
    \/ \E t \in Threads : Step(t)
    \/ Call(SeqCaller, Names)
    \/ \E kind \in FailKinds : RebuildFail(Main, kind)
    \/ \E bound \in BOOLEAN : ServeListen(bound)
    \/ GrpcServe
    \/ Signal
    \/ GracefulStop
    \/ StopDone
    \/ ServeReturn
    \/ \E i \in 1..Len(NodeIDs(cfg)) :
          StreamOpen(NodeIDs(cfg)[i]) \/ StreamClose(NodeIDs(cfg)[i])

SpecServe == Init /\ [][NextServe]_vars

\* the same writers under fair scheduling: Go schedules every goroutine again
\* and again, and a goroutine waiting in Lock or RLock gets the mutex once it is
\* free often enough (the mutex hands over to starved waiters), hence strong
\* fairness of each thread's steps.
FairSpec ==
    /\ SpecDisjoint
    /\ WF_vars(MainStep)
    /\ \A t \in Threads : SF_vars(Step(t))

\* the environments main() may be started in
Envs ==
    {EmptyEnv,
     [EmptyEnv EXCEPT !.ENVOYAGE_HOME_NODE_ID = "home-1"],
     [EmptyEnv EXCEPT !.ENVOYAGE_HOME_WG_IP = <<"1", "0", ".", "8", ".", "0", ".", "1">>,
                      !.ENVOYAGE_HOME_ENVOY_PORT = <<"8", "0", "8", "0">>]}

InitCfg == \E env \in Envs : InitWith(env)

SpecCfg == InitCfg /\ [][Next]_vars

\* the builder alone: Build applied, for one (services, version) that Snapshot()
\* can return, to each of a pool of node ids
NodePool == {"envoyage-envoy-home", "envoyage-envoy-vps", "edge-2", ""}

\* the service lists Snapshot() can return: distinct names, in any order
ServiceLists ==
    {l \in UNION {[1..n -> ServicePool] : n \in 0..Cardinality(Names)} :
        \A i, j \in 1..Len(l) : i # j => l[i].Name # l[j].Name}

\* rebuildSnapshots right after its call of Snapshot(), which returned one of
\* lists at some version
BuilderAt(lists) ==
    /\ cfg = Load(EmptyEnv)
    /\ services = EmptyMap
    /\ version = 0
    /\ onChange = "nil"
    /\ writer = NoThread
    /\ readers = {}
    /\ cache = EmptyMap
    /\ pc = [t \in Threads |-> IF t = Main THEN "build" ELSE "idle"]
    /\ op = [t \in Threads |-> "none"]
    /\ arg = [t \in Threads |-> NoArg]
    /\ ret = [t \in Threads |-> "none"]
    /\ cb = [t \in Threads |-> "nil"]
    /\ snap \in {[t \in Threads |-> IF t = Main THEN [svcs |-> l, ver |-> v] ELSE NoSnap] :
                    l \in lists, v \in 0..MaxVersion}
    /\ idx = [t \in Threads |-> 0]
    /\ hookCalls = 0
    /\ okReturns = 0
    /\ installedFrom = EmptyMap
    /\ errLog = <<>>
    /\ refs = [t \in Threads |-> [i \in 1..Len(snap[t].svcs) |-> "copy"]]
    /\ req = [t \in Threads |-> NoReq]
    /\ resp = [t \in Threads |-> 0]
    /\ docker = NoDocker
    /\ proc = NoProc
    /\ past = <<>>
    /\ owner = EmptyMap
    /\ track = {}

InitBuild == BuilderAt(ServiceLists)

\* one round of the loop of rebuildSnapshots, for any node id
BuildFor(nodeID) ==
    /\ nodeID \notin DOMAIN cache
    /\ \E b \in {Build(nodeID, snap[Main].svcs, snap[Main].ver)} :
          /\ ~b.err
          /\ cache' = (nodeID :> b.snap) @@ cache
          /\ installedFrom' = (nodeID :> snap[Main]) @@ installedFrom
    /\ UNCHANGED <<cfg, track, proc, past, owner, adapterVars, errLog, refs,
                   regVars, lockVars, pc, op, arg, ret, cb, snap, idx,
                   hookCalls, okReturns>>

NextBuild == \E nodeID \in NodePool : BuildFor(nodeID)

SpecBuild == InitBuild /\ [][NextBuild]_vars

\* the builder on one service whose upstream is any of a pool of addresses:
\* hosts with and without colons of their own, followed by nothing, by a colon
\* alone, or by a colon and a port string
Digits == <<"0", "1", "2", "3", "4", "5", "6", "7", "8", "9">>

HostPool ==
    {<<"w", "e", "b", "-", "a">>,
     <<"1", "0", ".", "0", ".", "0", ".", "5">>,
     <<"f", "e", "8", "0", ":", ":", "1">>,
     <<>>}

PortPool ==
    {<<>>}
    \cup {<<Digits[a]>> : a \in 1..10}
    \cup {<<Digits[a], Digits[b]>> : a, b \in 1..10}
    \cup {<<"0", "8", "0">>, <<"4", "4", "3">>, <<"5", "6", "7", "8">>,
          <<"8", "0", "8", "0">>, <<"0", "0", "0", "8", "0">>,
          <<"6", "5", "5", "3", "5">>, <<"6", "5", "5", "3", "6">>,
          <<"9", "9", "9", "9", "9">>,
          <<"4", "2", "9", "4", "9", "6", "7", "2", "9", "5">>,
          <<"4", "2", "9", "4", "9", "6", "7", "3", "7", "6">>,
          <<"h", "t", "t", "p">>, <<"8", "o">>, <<"-", "1">>}

UpstreamPool ==
    HostPool \cup {h \o <<":">> \o p : h \in HostPool, p \in PortPool}

InitSplit ==
    BuilderAt({<< [Name |-> "web", Domain |-> "web.example.com", Upstream |-> u] >> :
                  u \in UpstreamPool})

SpecSplit == InitSplit /\ [][NextBuild]_vars

(***************************************************************************)
(* Vocabulary of the properties.                                           *)
(***************************************************************************)
\* no call is in flight: every hook invocation has returned
Quiescent == pc[Main] = "serve" /\ \A t \in Workers : pc[t] = "idle"

\* thread t is inside the change hook
InHook(t) == op[t] \in Mutators /\ pc[t] \in {"rlock", "read", "build"}

\* thread t takes the step that ends its critical section
LeavesCrit(t) == pc[t] = "crit" /\ pc'[t] # "crit"

\* t's mutation is accepted as the registry stands
Acceptable(t) ==
    IF op[t] = "Add" THEN arg[t].Name \notin DOMAIN services
    ELSE arg[t].Name \in DOMAIN services

\* thread t's rebuild-all returns in this step with an error
FailsAt(t) == pc[t] = "build" /\ pc'[t] # "build" /\ errLog' # errLog

\* the body is one JSON text: null, or an object of members separated by
\* commas, and nothing after it
WellFormed(body) ==
    \/ body = <<Tok("null")>>
    \/ /\ Len(body) >= 2
       /\ body[1].tok = "{"
       /\ body[Len(body)].tok = "}"
       /\ Len(body) > 2 => Len(body) % 2 = 1
       /\ \A i \in 2..(Len(body) - 1) :
             body[i].tok = IF i % 2 = 0 THEN "member" ELSE ","

\* the string the body gives for a key, if it gives one
HasText(body, key) ==
    \E i \in 1..Len(body) :
       /\ body[i].tok = "member" /\ body[i].key = key /\ body[i].type = "string"
       /\ body[i].str # "" \/ body[i].bytes # <<>>

\* a body that handleAddService has to refuse
Refusable(body) ==
    \/ ~WellFormed(body)
    \/ \E key \in {"name", "domain", "upstream"} : ~HasText(body, key)

\* thread t takes up a POST request in this step
TakesPost(t) == req'[t] # req[t] /\ req'[t].kind = "POST"

\* thread t writes the status of its request in this step
Responds(t) ==
    /\ req[t].kind \in {"POST", "DELETE"}
    /\ req'[t] = req[t]
    /\ resp[t] = 0 /\ resp'[t] # 0

\* thread t's POST has called reg.Add and has not written its status yet
PostInFlight(t) == req[t].kind = "POST" /\ resp[t] = 0

\* the watcher takes up a stop, die or kill event of container id in this step
StopsContainer(id) ==
    /\ id \in docker.running
    /\ id \notin docker'.running

\* the watcher's handler of such an event returns in this step
StopHandled ==
    /\ req[WatcherThread] # NoReq
    /\ req[WatcherThread].kind \in StopActions
    /\ req'[WatcherThread] = NoReq

\* the watcher takes up an event of container id, or its entry in the list of
\* the initial sync, in this step
EventOf(id) ==
    \/ (id \in docker.running) # (id \in docker'.running)
    \/ id \in docker.todo /\ id \notin docker'.todo

\* the labels of container id opt it in
OptedIn(id) == Container(id).Labels.enable = "true"

\* container id has a domain label, a port label of decimal digits, and an
\* address on one of its networks
Registrable(id) ==
    LET c == Container(id)
    IN  /\ c.Labels.domain # ""
        /\ c.Labels.port # <<>>
        /\ \A i \in 1..Len(c.Labels.port) :
              \E d \in 1..10 : Digits[d] = c.Labels.port[i]
        /\ \E n \in DOMAIN c.Networks : c.Networks[n] # <<>>

\* the service map the registry held right after its N-th accepted mutation
HeldAfter(N) == IF N = 0 THEN EmptyMap ELSE past[N]

\* sn, a result of Snapshot(), is that map, entry for entry, at version N
ReadAt(sn, N) ==
    /\ sn.ver = N
    /\ Len(sn.svcs) = Cardinality(DOMAIN HeldAfter(N))
    /\ {sn.svcs[i] : i \in 1..Len(sn.svcs)} = {HeldAfter(N)[n] : n \in DOMAIN HeldAfter(N)}

\* thread t's rebuild-all ends a round of its loop in this step
EndsRound(t) == pc[t] = "build" /\ (idx'[t] # idx[t] \/ pc'[t] # "build")

\* the N of an installed snapshot's label v<N>
VersionOf(sn) == CHOOSE N \in 0..MaxVersion : VersionStr(N) = sn.Version

\* the version of the snapshot the cache holds for a node, -1 before the first
\* SetSnapshot for it
InstalledVersion(node) ==
    IF node \in DOMAIN cache THEN VersionOf(cache[node]) ELSE -1

\* the value a string of decimal digits denotes
RECURSIVE DecimalValue(_)
DecimalValue(digits) ==
    IF digits = <<>> THEN 0
    ELSE 10 * DecimalValue(SubSeq(digits, 1, Len(digits) - 1))
         + (CHOOSE d \in 0..9 : Digits[d + 1] = digits[Len(digits)])

\* a string of at most five decimal digits (its value is below 100000)
ShortNumber(s) ==
    /\ Len(s) \in 1..5
    /\ \A i \in 1..Len(s) : \E d \in 1..10 : Digits[d] = s[i]

\* the upstream is host:port with a port of 1..65535 in decimal digits
PortInRange(upstream) ==
    \E i \in 1..Len(upstream) :
       /\ upstream[i] = ":"
       /\ \A j \in (i + 1)..Len(upstream) : upstream[j] # ":"
       /\ ShortNumber(SubSeq(upstream, i + 1, Len(upstream)))
       /\ DecimalValue(SubSeq(upstream, i + 1, Len(upstream))) \in 1..65535

\* the service names in a list of services
NamesIn(svcs) == {svcs[i].Name : i \in 1..Len(svcs)}

\* the address of the single endpoint of a cluster
EndpointOf(cluster) == cluster.LoadAssignment.Endpoints[1].LbEndpoints[1].Address

\* the cluster names the routes of a snapshot forward to
RouteTargets(sn) ==
    UNION {UNION {{sn.Routes[rc].VirtualHosts[v].Routes[r].Action.Cluster :
                      r \in 1..Len(sn.Routes[rc].VirtualHosts[v].Routes)} :
                  v \in 1..Len(sn.Routes[rc].VirtualHosts)} :
           rc \in DOMAIN sn.Routes}

(***************************************************************************)
(* Properties.                                                             *)
(***************************************************************************)

\* C1 (convergence): once no call is in flight, every managed node's installed
\* snapshot carries the registry's version and was built from its service set.
C1_Convergence ==
    Quiescent =>
       \A i \in 1..Len(NodeIDs(cfg)) :
          LET node == NodeIDs(cfg)[i]
          IN  /\ node \in DOMAIN cache
              /\ cache[node].Version = VersionStr(version)
              /\ {installedFrom[node].svcs[j] : j \in 1..Len(installedFrom[node].svcs)}
                    = {services[n] : n \in DOMAIN services}

\* C2 (monotonicity): a step changes the version only by adding one, and it does
\* so exactly when it is the accepting step of an Add, Remove or Update; a
\* rejected mutation, Snapshot and OnChange leave it alone.
C2_Monotonic ==
    [][/\ version' \in {version, version + 1}
       /\ (version' = version + 1) <=>
             \E t \in Threads : LeavesCrit(t) /\ op[t] \in Mutators /\ Acceptable(t)
       /\ \A t \in Threads :
             (pc'[t] # pc[t] /\ (op[t] \in {"Snapshot", "OnChange", "Seed"}
                                 \/ (LeavesCrit(t) /\ ~Acceptable(t))))
                => version' = version]_vars

C2_Witness ==
    /\ version >= 2
    /\ \E t \in Workers : ret[t] \in {"AlreadyExists", "NotFound"}
    /\ \E t \in Workers : op[t] = "Snapshot" /\ ret[t] = "ok"

\* C3 (hook after release): a thread inside the change hook never holds the
\* registry's write lock; some thread inside a call can always take a step;
\* and every Add, Remove or Update a worker starts returns.
C3_HookAfterRelease ==
    /\ [](\A t \in Threads : InHook(t) => writer # t)
    /\ []((\E t \in Threads : pc[t] \notin {"idle", "serve", "exit"})
             => ENABLED (MainStep \/ \E t \in Threads : Step(t)))
    /\ \A t \in Workers : (pc[t] # "idle") ~> (pc[t] = "idle")

C3_Witness ==
    \E t, u \in Workers :
       /\ t # u
       /\ InHook(t) /\ pc[t] = "read"
       /\ op[u] \in Mutators /\ pc[u] = "drain"

\* C4 (atomic visibility): an accepted Add(s) puts s in the map and an accepted
\* Remove(n) takes n out; a name enters the map only by an accepted Add of it
\* and leaves only by an accepted Remove of it; and every Snapshot() returns
\* exactly the services in the map.
C4_AtomicVisibility ==
    [][/\ \A t \in Threads :
             (LeavesCrit(t) /\ Acceptable(t)) =>
                /\ op[t] = "Add" => /\ arg[t].Name \in DOMAIN services'
                                    /\ services'[arg[t].Name] = arg[t]
                /\ op[t] = "Remove" => arg[t].Name \notin DOMAIN services'
       /\ \A n \in Names :
             /\ (n \in DOMAIN services /\ n \notin DOMAIN services') =>
                   \E t \in Threads :
                      LeavesCrit(t) /\ op[t] = "Remove" /\ arg[t].Name = n
             /\ (n \notin DOMAIN services /\ n \in DOMAIN services') =>
                   \E t \in Threads :
                      LeavesCrit(t) /\ op[t] = "Add" /\ arg[t].Name = n
       /\ \A t \in Threads :
             (pc[t] = "read" /\ pc'[t] # "read") =>
                /\ NamesIn(snap'[t].svcs) = DOMAIN services
                /\ Len(snap'[t].svcs) = Cardinality(DOMAIN services)
                /\ \A i \in 1..Len(snap'[t].svcs) :
                      snap'[t].svcs[i] = services[snap'[t].svcs[i].Name]]_vars

C4_Witness ==
    \E t, u \in Workers :
       /\ op[t] = "Add" /\ ret[t] = "ok"
       /\ op[u] = "Snapshot" /\ ret[u] = "ok"
       /\ arg[t].Name \in NamesIn(snap[u].svcs)
       /\ Len(snap[u].svcs) = 2

\* C5 (duplicate rejection): an Add of a name that is present returns the
\* already-exists error, changes neither the map nor the version, and does not
\* invoke the hook.
C5_DuplicateRejected ==
    [][\A t \in Threads :
          (LeavesCrit(t) /\ op[t] = "Add" /\ arg[t].Name \in DOMAIN services) =>
             /\ ret'[t] = "AlreadyExists"
             /\ pc'[t] = "idle"
             /\ services' = services
             /\ version' = version
             /\ hookCalls' = hookCalls
             /\ okReturns' = okReturns
             /\ cache' = cache]_vars

C5_Witness ==
    \E t \in Workers :
       /\ op[t] = "Add" /\ ret[t] = "AlreadyExists" /\ pc[t] = "idle"
       /\ arg[t].Name \in DOMAIN services
       /\ services[arg[t].Name] # arg[t]

\* C6 (unknown name): a Remove or Update of a name that is absent returns the
\* not-found error, changes neither the map nor the version, and does not
\* invoke the hook; Update never adds a name to the map.
C6_NotFoundRejected ==
    [][/\ \A t \in Threads :
             (LeavesCrit(t) /\ op[t] \in {"Remove", "Update"}
                 /\ arg[t].Name \notin DOMAIN services) =>
                /\ ret'[t] = "NotFound"
                /\ pc'[t] = "idle"
                /\ services' = services
                /\ version' = version
                /\ hookCalls' = hookCalls
                /\ okReturns' = okReturns
                /\ cache' = cache
       /\ \A t \in Threads :
             (LeavesCrit(t) /\ op[t] = "Update") => DOMAIN services' = DOMAIN services]_vars

C6_Witness ==
    /\ \E t \in Workers : op[t] = "Update" /\ ret[t] = "NotFound" /\ pc[t] = "idle"
    /\ \E t \in Workers : op[t] = "Remove" /\ ret[t] = "NotFound" /\ pc[t] = "idle"
    /\ version >= 1

\* C7 (concurrent writers on disjoint names): once every call has returned, the
\* version is the number of calls that returned success, the hook has been
\* invoked as many times, and a worker's name is in the map exactly if the
\* worker's last call was an Add or an accepted Update; meanwhile the hook is
\* never invoked more often than mutations were accepted.
C7_ConcurrentWriters ==
    /\ hookCalls <= version
    /\ okReturns <= hookCalls
    /\ Quiescent =>
          /\ version = okReturns
          /\ hookCalls = okReturns
          /\ DOMAIN services =
                {OwnName(t) : t \in {u \in Workers :
                                        \/ op[u] = "Add"
                                        \/ op[u] = "Update" /\ ret[u] = "ok"}}

C7_Witness ==
    /\ Quiescent
    /\ version = MaxVersion
    /\ \E t \in Workers : ret[t] \in {"AlreadyExists", "NotFound"}
    /\ Cardinality(DOMAIN services) = 1

\* C8 (split horizon): whatever services and node ids Build is applied to, each
\* service has its cluster cluster_<name> in the snapshot built for a node, whose
\* endpoint is the service's upstream if the node is the home node and the home
\* ingress otherwise, and its virtual host (name, domain, prefix /, target
\* cluster_<name>); the snapshots of any two nodes have equal listeners, equal
\* routes and the same cluster names.
C8_SplitHorizon ==
    /\ \A node \in DOMAIN cache :
          LET from == installedFrom[node]
          IN  /\ \A i \in 1..Len(from.svcs) :
                   LET s == from.svcs[i]
                       chosen == IF node = homeEnvoyNodeID THEN s.Upstream
                                 ELSE homeEnvoyIngress
                   IN  /\ ClusterName(s.Name) \in DOMAIN cache[node].Clusters
                       /\ \E hp \in {splitHostPort(chosen)} :
                             EndpointOf(cache[node].Clusters[ClusterName(s.Name)])
                                = [Protocol |-> "TCP", Address |-> hp.host,
                                   PortValue |-> hp.port]
                       /\ cache[node].Routes["local_routes"].VirtualHosts[i]
                             = [Name |-> s.Name,
                                Domains |-> <<s.Domain>>,
                                Routes |-> << [Match |-> [Prefix |-> "/"],
                                               Action |-> [Cluster |-> ClusterName(s.Name)]] >>]
    /\ \A n1, n2 \in DOMAIN cache :
          /\ cache[n1].Listeners = cache[n2].Listeners
          /\ installedFrom[n1] = installedFrom[n2] =>
                /\ cache[n1].Routes = cache[n2].Routes
                /\ DOMAIN cache[n1].Clusters = DOMAIN cache[n2].Clusters

C8_Witness ==
    /\ {"envoyage-envoy-home", "envoyage-envoy-vps", "edge-2"} \subseteq DOMAIN cache
    /\ cache["edge-2"].Clusters = cache["envoyage-envoy-vps"].Clusters
    /\ installedFrom["envoyage-envoy-home"] = installedFrom["envoyage-envoy-vps"]
    /\ "cluster_web" \in DOMAIN cache["envoyage-envoy-home"].Clusters
    /\ EndpointOf(cache["envoyage-envoy-home"].Clusters["cluster_web"])
          = [Protocol |-> "TCP", Address |-> <<"w", "e", "b", "-", "a">>,
             PortValue |-> [hi |-> 0, lo |-> 5678]]
    /\ EndpointOf(cache["envoyage-envoy-vps"].Clusters["cluster_web"])
          = [Protocol |-> "TCP",
             Address |-> <<"e", "n", "v", "o", "y", "-", "h", "o", "m", "e">>,
             PortValue |-> [hi |-> 0, lo |-> 10000]]

C10_ReferentialClosure ==
    \A node \in DOMAIN cache :
       /\ RouteTargets(cache[node]) \subseteq DOMAIN cache[node].Clusters
       /\ ListenerRouteRefs(cache[node]) = {"local_routes"}
       /\ "local_routes" \in DOMAIN cache[node].Routes
       /\ cache[node].Routes["local_routes"].Name = "local_routes"
       /\ Consistent(cache[node])

C10_Witness ==
    \E node \in DOMAIN cache :
       /\ node # homeEnvoyNodeID
       /\ RouteTargets(cache[node]) = {"cluster_web", "cluster_db"}
       /\ DOMAIN cache[node].Clusters = {"cluster_web", "cluster_db"}

\* C11 (seed): before main has got through Seed no worker has called the
\* registry; once Seed has returned without error every managed node has a
\* snapshot; and the step on which Seed returns leaves, for every managed node,
\* the snapshot v0 with no clusters, the route configuration local_routes with
\* no virtual hosts and the one listener listener_http on port 10000.
C11_Seed ==
    /\ [](pc[Main] # "serve" =>
             \A t \in Workers : pc[t] = "idle" /\ op[t] = "none" /\ version = 0)
    /\ [](pc[Main] = "serve" =>
             \A i \in 1..Len(NodeIDs(cfg)) : NodeIDs(cfg)[i] \in DOMAIN cache)
    /\ [][(pc[Main] # "serve" /\ pc'[Main] = "serve") =>
             \A i \in 1..Len(NodeIDs(cfg)) :
                LET node == NodeIDs(cfg)[i]
                IN  /\ node \in DOMAIN cache'
                    /\ cache'[node].Version = "v0"
                    /\ DOMAIN cache'[node].Clusters = {}
                    /\ DOMAIN cache'[node].Routes = {"local_routes"}
                    /\ cache'[node].Routes["local_routes"].VirtualHosts = <<>>
                    /\ DOMAIN cache'[node].Listeners = {"listener_http"}
                    /\ cache'[node].Listeners["listener_http"].Address.PortValue
                          = [hi |-> 0, lo |-> 10000]]_vars

C11_Witness ==
    /\ pc[Main] = "serve"
    /\ op[Main] = "Seed"
    /\ version = 0
    /\ \A i \in 1..Len(NodeIDs(cfg)) :
          /\ NodeIDs(cfg)[i] \in DOMAIN cache
          /\ cache[NodeIDs(cfg)[i]].Version = "v0"

(***************************************************************************)
(* C12  Failure isolation in rebuild-all: when the build or the install    *)
(* for one managed node fails, rebuild-all goes on with the remaining      *)
(* nodes, so when it returns every other managed node holds a snapshot     *)
(* built from the version that was read (or from a later one, installed by *)
(* a concurrent rebuild).                                                  *)
(***************************************************************************)
C12_FailureIsolation ==
    [][\A t \in Threads :
          FailsAt(t) =>
             \A i \in 1..Len(NodeIDs(cfg)) :
                i # idx[t] =>
                   /\ NodeIDs(cfg)[i] \in DOMAIN installedFrom'
                   /\ installedFrom'[NodeIDs(cfg)[i]].ver >= snap[t].ver]_vars

C14_SynchronousPropagation ==
    (pc[Main] = "serve" /\ pc[SeqCaller] = "idle") =>
       \A i \in 1..Len(NodeIDs(cfg)) :
          LET node == NodeIDs(cfg)[i]
              vhs == cache[node].Routes["local_routes"].VirtualHosts
          IN  /\ cache[node].Version = VersionStr(version)
              /\ DOMAIN cache[node].Clusters = {ClusterName(n) : n \in DOMAIN services}
              /\ Len(vhs) = Cardinality(DOMAIN services)
              /\ {vhs[j].Name : j \in 1..Len(vhs)} = DOMAIN services
              /\ node = homeEnvoyNodeID =>
                    \A n \in DOMAIN services :
                       \E hp \in {splitHostPort(services[n].Upstream)} :
                          EndpointOf(cache[node].Clusters[ClusterName(n)])
                             = [Protocol |-> "TCP", Address |-> hp.host,
                                PortValue |-> hp.port]

\* the third accepted mutation, an Add of web with upstream web-b:5678, has
\* returned: web was added and removed before, and both nodes are at v3
C14_Witness ==
    /\ pc[Main] = "serve"
    /\ pc[SeqCaller] = "idle" /\ op[SeqCaller] = "Add" /\ ret[SeqCaller] = "ok"
    /\ arg[SeqCaller] = [Name |-> "web", Domain |-> "web.example.com", Upstream |-> WebB]
    /\ version = 3
    /\ DOMAIN services = {"web"}
    /\ \A i \in 1..Len(NodeIDs(cfg)) : cache[NodeIDs(cfg)[i]].Version = "v3"
    /\ EndpointOf(cache[homeEnvoyNodeID].Clusters["cluster_web"])
          = [Protocol |-> "TCP", Address |-> <<"w", "e", "b", "-", "b">>,
             PortValue |-> [hi |-> 0, lo |-> 5678]]
    /\ "cluster_db" \notin DOMAIN cache[homeEnvoyNodeID].Clusters

(***************************************************************************)
(* C15  Snapshot() is atomic: while a thread is between RLock and RUnlock  *)
(* no mutator is in its critical section; the pair Snapshot() returns is   *)
(* the registry's current version with exactly the services stored at that *)
(* moment; and the service map changes only in steps that raise the        *)
(* version by one, so the services paired with version v are the ones the  *)
(* registry held right after its v-th accepted mutation.                   *)
(***************************************************************************)
C15_SnapshotAtomic ==
    /\ [](\A t, u \in Threads : pc[t] = "read" => pc[u] # "crit")
    /\ [][\A t \in Threads :
             (pc[t] = "read" /\ pc'[t] # "read") =>
                /\ snap'[t].ver = version
                /\ Len(snap'[t].svcs) = Cardinality(DOMAIN services)
                /\ \A n \in DOMAIN services :
                      \E i \in 1..Len(snap'[t].svcs) : snap'[t].svcs[i] = services[n]]_vars
    /\ [][/\ version' \in {version, version + 1}
          /\ version' = version => services' = services]_vars

\* Snapshot() has returned two services at version 2 or later to one worker
\* while the other worker is inside a mutation
C15_Witness ==
    \E t, u \in Workers :
       /\ pc[t] = "idle" /\ op[t] = "Snapshot" /\ ret[t] = "ok"
       /\ snap[t].ver >= 2
       /\ Len(snap[t].svcs) = 2
       /\ op[u] \in Mutators /\ pc[u] \in {"lock", "drain", "crit", "rlock", "read", "build"}

(***************************************************************************)
(* C16  Defensive copies on read: no object Snapshot() returns is an       *)
(* object the registry stores (each is a new one, so no two calls return   *)
(* the same); a caller's write into a returned Service changes neither the *)
(* stored services, nor the version, nor what another caller holds; and    *)
(* every later Snapshot() still returns the services as they were added.   *)
(***************************************************************************)
C16_DefensiveCopies ==
    /\ [](\A t \in Threads :
             /\ Len(refs[t]) = Len(snap[t].svcs)
             /\ \A i \in 1..Len(refs[t]) : refs[t][i] = "copy")
    /\ [][\A t \in Workers :
             (pc[t] = "idle" /\ pc'[t] = "idle" /\ snap'[t] # snap[t]) =>
                /\ services' = services
                /\ version' = version
                /\ \A u \in Threads \ {t} : snap'[u] = snap[u]]_vars
    /\ [][\A t \in Threads :
             (pc[t] = "read" /\ pc'[t] # "read") =>
                \A i \in 1..Len(snap'[t].svcs) : snap'[t].svcs[i] \in ServicePool]_vars

\* a worker has written into a Service it got from Snapshot(), the registry
\* still stores the original, and the other worker has called Snapshot() too
C16_Witness ==
    \E t, u \in Workers :
       /\ t # u
       /\ pc[t] = "idle" /\ op[t] = "Snapshot"
       /\ \E i \in 1..Len(snap[t].svcs) :
             /\ snap[t].svcs[i].Domain = "changed.example.com"
             /\ snap[t].svcs[i].Name \in DOMAIN services
             /\ services[snap[t].svcs[i].Name] \in ServicePool
             /\ pc[u] = "idle" /\ op[u] = "Snapshot" /\ ret[u] = "ok"
             /\ \E j \in 1..Len(snap[u].svcs) :
                   /\ snap[u].svcs[j].Name = snap[t].svcs[i].Name
                   /\ snap[u].svcs[j] \in ServicePool

(***************************************************************************)
(* C18  Adapter-side validation: a POST /services whose body is malformed  *)
(* JSON or has an empty name, domain or upstream is answered with 400 and  *)
(* the registry is not called: the service map and the version stay as     *)
(* they are and no hook is invoked.                                        *)
(***************************************************************************)
C18_AdapterValidation ==
    [][\A t \in Workers :
          (TakesPost(t) /\ Refusable(req'[t].body)) =>
             /\ resp'[t] = StatusBadRequest
             /\ pc'[t] = "idle" /\ op'[t] = op[t]
             /\ UNCHANGED <<services, version, hookCalls>>]_vars

(***************************************************************************)
(* C19  HTTP status follows the registry outcome.  A POST is answered 201  *)
(* when Add returned nil and 409 when it returned already-exists, a DELETE *)
(* 200 when Remove returned nil and 404 when it returned not-found; Add    *)
(* is accepted exactly when the name is absent at its critical section and *)
(* Remove exactly when it is present, and nil is returned only at the end  *)
(* of an accepted call; of two POSTs for one name that are in flight       *)
(* together, at most one returns nil as long as no Remove has been         *)
(* accepted (every accepted mutation so far has added an entry).           *)
(***************************************************************************)
C19_StatusFollowsRegistry ==
    /\ [][\A t \in Workers :
             Responds(t) =>
                IF req[t].kind = "POST"
                THEN \/ resp'[t] = StatusCreated /\ ret[t] = "ok"
                     \/ resp'[t] = StatusConflict /\ ret[t] = "AlreadyExists"
                ELSE \/ resp'[t] = StatusOK /\ ret[t] = "ok"
                     \/ resp'[t] = StatusNotFound /\ ret[t] = "NotFound"]_vars
    /\ [][\A t \in Workers :
             /\ (LeavesCrit(t) /\ op[t] = "Add") =>
                   IF arg[t].Name \in DOMAIN services
                   THEN ret'[t] = "AlreadyExists" /\ version' = version
                   ELSE ret'[t] = "none" /\ version' = version + 1
             /\ (LeavesCrit(t) /\ op[t] = "Remove") =>
                   IF arg[t].Name \in DOMAIN services
                   THEN ret'[t] = "none" /\ version' = version + 1
                   ELSE ret'[t] = "NotFound" /\ version' = version
             /\ (ret[t] # "ok" /\ ret'[t] = "ok") => pc[t] = "build"]_vars
    /\ [](\A t, u \in Workers :
             (/\ t # u
              /\ PostInFlight(t) /\ PostInFlight(u)
              /\ arg[t].Name = arg[u].Name
              /\ Cardinality(DOMAIN services) = version) =>
                ~(ret[t] = "ok" /\ ret[u] = "ok"))

\* two POSTs for web, of which only one was accepted: one 201, one 409
C19_Witness ==
    \E t, u \in Workers :
       /\ req[t].kind = "POST" /\ req[u].kind = "POST"
       /\ arg[t].Name = "web" /\ arg[u].Name = "web"
       /\ resp[t] = StatusCreated /\ resp[u] = StatusConflict
       /\ version = 1 /\ okReturns = 1

(***************************************************************************)
(* C20  Start/stop symmetry of the container adapter: for a container the  *)
(* watcher registered on start or in the initial sync, under whichever     *)
(* name the resolution order gave, the stop, die or kill event makes the   *)
(* watcher call Remove with that same name, and when the handler returns   *)
(* the registry has no service of that name.                               *)
(***************************************************************************)
C20_StartStopSymmetry ==
    /\ [][\A id \in ContainerIDs :
             (StopsContainer(id) /\ id \in DOMAIN docker.names) =>
                /\ op'[WatcherThread] = "Remove"
                /\ pc'[WatcherThread] = "lock"
                /\ arg'[WatcherThread].Name = docker.names[id]]_vars
    /\ [][StopHandled =>
             /\ ret[WatcherThread] \in {"ok", "NotFound"}
             /\ arg[WatcherThread].Name \notin DOMAIN services'
             /\ req[WatcherThread].id \in DOMAIN docker.names =>
                   arg[WatcherThread].Name = docker.names[req[WatcherThread].id]]_vars
    /\ [](\A id \in DOMAIN docker.names :
             docker.names[id] =
                IF Container(id).Labels.name # "" THEN Container(id).Labels.name
                ELSE IF Container(id).Labels.compose # "" THEN Container(id).Labels.compose
                ELSE Container(id).Name)

\* C21 (clean shutdown): once the signal has cancelled the context and the
\* listener was bound, the process ends only by main returning: Serve has
\* returned nil after the graceful stop and the exit status is 0, whether the
\* cancellation came before or after grpcServer.Serve began.
C21_CleanShutdown ==
    (proc.ctx = "cancelled" /\ proc.lis # "none" /\ ExitCode # -1) =>
       /\ ExitCode = 0
       /\ proc.err = "nil"
       /\ proc.grpc = "stopped"

\* C22 (startup failures are fatal): after a failed Seed the process has exited
\* with a non-zero status and Serve was never called; after a failed bind the
\* process has exited with a non-zero status and no gRPC server has been serving.
C22_StartupFatal ==
    /\ (\E i \in 1..Len(errLog) : errLog[i].op = "Seed") =>
          /\ ExitCode > 0
          /\ proc = NoProc
    /\ proc.err = "bind" =>
          /\ ExitCode > 0
          /\ proc.lis = "none"
          /\ proc.grpc # "serving"
          /\ proc.streams = {}

\* Seed failed for the second node, after the first node got its snapshot
C22_Witness ==
    /\ Len(errLog) = 1
    /\ errLog[1].op = "Seed"
    /\ errLog[1].node = NodeIDs(cfg)[2]
    /\ NodeIDs(cfg)[1] \in DOMAIN cache
    /\ ExitCode = 1

\* C24 (one consistent read per rebuild): every installed snapshot labelled
\* v<N> is the Build of exactly the service map the registry held right after
\* its N-th accepted mutation; and a rebuild-all installs, in each round of its
\* loop, from the one (services, version) pair it read at its start.
C24_ConsistentSnapshots ==
    /\ [](\A node \in DOMAIN cache :
             \E N \in 0..version :
                /\ cache[node].Version = VersionStr(N)
                /\ ReadAt(installedFrom[node], N)
                /\ cache[node] = Build(node, installedFrom[node].svcs, N).snap)
    /\ [][\A t \in Threads :
             EndsRound(t) =>
                /\ pc'[t] = "build" => snap'[t] = snap[t]
                /\ installedFrom'[NodeIDs(cfg)[idx[t]]] = snap[t]
                /\ cache'[NodeIDs(cfg)[idx[t]]].Version = VersionStr(snap[t].ver)]_vars

\* a node still holds v1 after the registry has gone on to a different map at
\* version 2, and a rebuild of version 2 is under way
C24_Witness ==
    /\ version = 2
    /\ past[1] # past[2]
    /\ \E node \in DOMAIN cache : cache[node].Version = VersionStr(1)
    /\ \E t \in Workers : pc[t] = "build" /\ snap[t].ver = 2 /\ idx[t] = 2

\* C25 (per-node monotonicity): no step replaces the snapshot installed for a
\* node by one with a lower version, however the mutators and their hooks
\* interleave.
C25_NodeVersionMonotonic ==
    [][\A node \in DOMAIN cache :
          VersionOf(cache'[node]) >= VersionOf(cache[node])]_vars

\* C26 (snapshot shape): whatever the node id, the service list and the
\* version, a built snapshot has as many clusters as the list has services, one
\* route configuration, named local_routes, with as many virtual hosts as the
\* list has services, and one listener, named listener_http, on TCP
\* 0.0.0.0:10000, whose connection manager takes local_routes over ADS; the
\* listener is the same resource in every snapshot.
C26_SnapshotShape ==
    \A node \in DOMAIN cache :
       LET sn == cache[node]
           svcs == installedFrom[node].svcs
       IN  /\ Cardinality(DOMAIN sn.Clusters) = Len(svcs)
           /\ DOMAIN sn.Routes = {"local_routes"}
           /\ sn.Routes["local_routes"].Name = "local_routes"
           /\ Len(sn.Routes["local_routes"].VirtualHosts) = Len(svcs)
           /\ DOMAIN sn.Listeners = {"listener_http"}
           /\ sn.Listeners["listener_http"] =
                [Name |-> "listener_http",
                 Address |-> [Protocol |-> "TCP", Address |-> "0.0.0.0",
                              PortValue |-> [hi |-> 0, lo |-> 10000]],
                 FilterChains |->
                   << [Filters |->
                         << [Name |-> "envoy.filters.network.http_connection_manager",
                             TypedConfig |->
                               [StatPrefix |-> "ingress_http",
                                Rds |-> [ConfigSource |-> "ADS",
                                         ResourceApiVersion |-> "V3",
                                         RouteConfigName |-> "local_routes"],
                                HttpFilters |->
                                  << [Name |-> "envoy.filters.http.router",
                                      TypedConfig |-> "Router"] >>]] >>] >>]

\* the home node, an edge node and an unknown node all hold a snapshot built
\* from two services
C26_Witness ==
    /\ {"envoyage-envoy-home", "envoyage-envoy-vps", ""} \subseteq DOMAIN cache
    /\ Len(snap[Main].svcs) = 2
    /\ snap[Main].ver > 0

\* C27 (per-service resources): for every service of the list the snapshot has
\* the cluster cluster_<name>, with exactly one endpoint, and exactly one
\* virtual host called <name>, whose domains are the service's domain alone and
\* whose only route matches the prefix / and forwards to cluster_<name>;
\* services with different names get different clusters.
C27_PerServiceResources ==
    \A node \in DOMAIN cache :
       LET sn == cache[node]
           svcs == installedFrom[node].svcs
           vhosts == sn.Routes["local_routes"].VirtualHosts
       IN  \A i \in 1..Len(svcs) :
              LET cn == "cluster_" \o svcs[i].Name
                  mine == {v \in 1..Len(vhosts) : vhosts[v].Name = svcs[i].Name}
              IN  /\ cn \in DOMAIN sn.Clusters
                  /\ sn.Clusters[cn].Name = cn
                  /\ sn.Clusters[cn].LoadAssignment.ClusterName = cn
                  /\ Len(sn.Clusters[cn].LoadAssignment.Endpoints) = 1
                  /\ Len(sn.Clusters[cn].LoadAssignment.Endpoints[1].LbEndpoints) = 1
                  /\ Cardinality(mine) = 1
                  /\ \A v \in mine :
                        /\ vhosts[v].Domains = <<svcs[i].Domain>>
                        /\ Len(vhosts[v].Routes) = 1
                        /\ vhosts[v].Routes[1].Match.Prefix = "/"
                        /\ vhosts[v].Routes[1].Action.Cluster = cn
                  /\ \A j \in 1..Len(svcs) :
                        svcs[j].Name # svcs[i].Name => "cluster_" \o svcs[j].Name # cn

\* an edge node holds a snapshot built from the services web and db
C27_Witness ==
    /\ "edge-2" \in DOMAIN cache
    /\ NamesIn(installedFrom["edge-2"].svcs) = {"web", "db"}
    /\ DOMAIN cache["edge-2"].Clusters = {"cluster_web", "cluster_db"}

\* C28 (host:port parsing): the endpoint the home node gets for an upstream
\* has, when the upstream holds no ':', the whole upstream as host and port 0;
\* otherwise the host is what stands before the rightmost ':' and the port is
\* 0 for an empty rest and the decimal value of a rest of digits, in particular
\* of every rest that denotes a value in 0..65535.
C28_SplitHostPort ==
    homeEnvoyNodeID \in DOMAIN cache =>
       LET u == installedFrom[homeEnvoyNodeID].svcs[1].Upstream
           e == EndpointOf(cache[homeEnvoyNodeID].Clusters["cluster_web"])
           colons == {i \in 1..Len(u) : u[i] = ":"}
       IN  IF colons = {}
           THEN e.Address = u /\ e.PortValue = [hi |-> 0, lo |-> 0]
           ELSE LET last == CHOOSE i \in colons : \A j \in colons : j <= i
                    rest == SubSeq(u, last + 1, Len(u))
                IN  /\ e.Address = SubSeq(u, 1, last - 1)
                    /\ rest = <<>> => e.PortValue = [hi |-> 0, lo |-> 0]
                    /\ ShortNumber(rest) =>
                          e.PortValue.hi * Limb + e.PortValue.lo = DecimalValue(rest)
                    /\ ShortNumber(rest) /\ DecimalValue(rest) <= 65535 =>
                          e.PortValue = [hi |-> 0, lo |-> DecimalValue(rest)]

\* the home node's endpoint for fe80::1:65535: the host keeps its own colons
\* and the port is the largest one
C28_Witness ==
    /\ homeEnvoyNodeID \in DOMAIN cache
    /\ installedFrom[homeEnvoyNodeID].svcs[1].Upstream =
          <<"f", "e", "8", "0", ":", ":", "1", ":", "6", "5", "5", "3", "5">>
    /\ EndpointOf(cache[homeEnvoyNodeID].Clusters["cluster_web"]) =
          [Protocol |-> "TCP", Address |-> <<"f", "e", "8", "0", ":", ":", "1">>,
           PortValue |-> [hi |-> 0, lo |-> 65535]]

\* C29 (port range): every service in the registry has an upstream whose port
\* is a decimal number in 1..65535, and every cluster endpoint of an installed
\* snapshot has a port value in 1..65535.
C29_PortRange ==
    /\ \A n \in DOMAIN services : PortInRange(services[n].Upstream)
    /\ \A node \in DOMAIN cache :
          \A c \in DOMAIN cache[node].Clusters :
             /\ EndpointOf(cache[node].Clusters[c]).PortValue.hi = 0
             /\ EndpointOf(cache[node].Clusters[c]).PortValue.lo \in 1..65535

\* C30 (the registry owns its copies): the contents of the service map change
\* only in a step that increments the version, a write of a caller into the
\* Service it passed to Add or Update included, and every service is stored
\* under its own name.
C30_RegistryOwnsCopies ==
    /\ [][services' # services => version' = version + 1]_vars
    /\ [](\A n \in DOMAIN services : services[n].Name = n)

\* C31 (registry key invariant): every key of the service map is the Name of
\* the Service stored under it, and no two stored services have the same name.
C31_KeyInvariant ==
    /\ \A n \in DOMAIN services : services[n].Name = n
    /\ \A m, n \in DOMAIN services : services[m].Name = services[n].Name => m = n

\* two services are stored after three accepted mutations, the last of them an
\* Update that has returned
C31_Witness ==
    /\ Cardinality(DOMAIN services) = 2
    /\ version = 3
    /\ \E t \in Workers : op[t] = "Update" /\ ret[t] = "ok" /\ pc[t] = "idle"

\* C32 (serialised mutations): at most one goroutine is inside the critical
\* section of Add, Remove or Update, and while one is there no goroutine is
\* inside the read section of Snapshot; readers by themselves are not limited.
C32_SerialisedMutations ==
    /\ Cardinality({t \in Threads : pc[t] = "crit"}) <= 1
    /\ (\E t \in Threads : pc[t] = "crit") => readers = {}
    /\ \A t \in Threads : pc[t] = "read" <=> t \in readers

\* two goroutines are inside the read section of Snapshot at the same time,
\* after a mutation has been accepted
C32_Witness ==
    /\ version >= 1
    /\ \E t, u \in Threads : t # u /\ pc[t] = "read" /\ pc[u] = "read"

\* C33 (OnChange replaces the hook): OnChange(fn) makes fn the registered
\* hook, and nothing else changes it; an accepted mutation reads the hook
\* registered when it commits under the lock and calls that one, once, after
\* the lock is released; with no hook registered it returns nil with the
\* version incremented and no call made.
C33_HookReplaced ==
    /\ [][\A t \in Threads :
             (pc[t] = "crit" /\ op[t] = "OnChange" /\ pc'[t] # "crit") =>
                onChange' = arg[t].fn]_vars
    /\ [][onChange' # onChange =>
             \E t \in Threads : pc[t] = "crit" /\ op[t] = "OnChange"]_vars
    /\ [][\A t \in Threads :
             (pc[t] = "crit" /\ op[t] \in Mutators /\ version' # version) =>
                /\ version' = version + 1
                /\ cb'[t] = onChange
                /\ writer' = NoThread
                /\ onChange = "nil" =>
                      pc'[t] = "idle" /\ ret'[t] = "ok" /\ hookCalls' = hookCalls
                /\ onChange # "nil" =>
                      pc'[t] = HookEntry(onChange) /\ hookCalls' = hookCalls + 1]_vars
    /\ [](\A t \in Workers :
             /\ pc[t] = "hook" => cb[t] = "other"
             /\ pc[t] \in {"rlock", "read", "build"} /\ op[t] \in Mutators =>
                   cb[t] = "rebuild")

\* a mutation went through with no hook registered, then OnChange registered
\* another function, and the next accepted mutation is now running that one
C33_Witness ==
    /\ pc[SeqCaller] = "hook"
    /\ cb[SeqCaller] = "other"
    /\ onChange = "other"
    /\ version = 2
    /\ hookCalls = 1
    /\ op[HookSetter] = "OnChange" /\ pc[HookSetter] = "idle" /\ ret[HookSetter] = "ok"

\* C34 (installation across nodes is ordered, not atomic): with one sequential
\* mutator and no build failure, the first managed node is never behind the
\* second and never more than one version ahead of it, and the two have the
\* same version whenever no goroutine is inside the loop of rebuildSnapshots.
C34_OrderedInstallation ==
    LET first == InstalledVersion(NodeIDs(cfg)[1])
        second == InstalledVersion(NodeIDs(cfg)[2])
    IN  /\ second <= first
        /\ first <= second + 1
        /\ (\A t \in Threads : pc[t] # "build") => first = second

\* the rebuild after the second mutation is between its two rounds: the home
\* node has v2 while the edge node still has v1
C34_Witness ==
    /\ pc[SeqCaller] = "build"
    /\ idx[SeqCaller] = 2
    /\ NodeIDs(cfg)[1] = homeEnvoyNodeID
    /\ cache[NodeIDs(cfg)[1]].Version = "v2"
    /\ cache[NodeIDs(cfg)[2]].Version = "v1"

\* C35 (upsert idempotence): when the watcher registers a container whose
\* service the registry already holds, Add refuses and changes nothing, the
\* watcher goes on to Update with the same service, and if the stored service
\* is equal to it the Update is accepted with the service map unchanged, the
\* version one higher and the hook called; when the registration has returned,
\* every node has a snapshot of that version.
C35_UpsertIdempotent ==
    /\ [][(/\ pc[WatcherThread] = "crit"
           /\ op[WatcherThread] = "Add"
           /\ arg[WatcherThread].Name \in DOMAIN services
           /\ pc'[WatcherThread] # "crit") =>
             /\ ret'[WatcherThread] = "AlreadyExists"
             /\ services' = services
             /\ version' = version]_vars
    /\ [][(/\ pc[WatcherThread] = "idle"
           /\ op[WatcherThread] = "Add"
           /\ ret[WatcherThread] = "AlreadyExists"
           /\ <<pc, req>>' # <<pc, req>>) =>
             /\ op'[WatcherThread] = "Update"
             /\ arg'[WatcherThread] = arg[WatcherThread]
             /\ pc'[WatcherThread] = "lock"]_vars
    /\ [][(/\ pc[WatcherThread] = "crit"
           /\ op[WatcherThread] = "Update"
           /\ arg[WatcherThread].Name \in DOMAIN services
           /\ services[arg[WatcherThread].Name] = arg[WatcherThread]
           /\ pc'[WatcherThread] # "crit") =>
             /\ services' = services
             /\ version' = version + 1
             /\ hookCalls' = hookCalls + 1
             /\ pc'[WatcherThread] = "rlock"]_vars
    /\ []((/\ pc[WatcherThread] = "idle"
           /\ op[WatcherThread] = "Update"
           /\ ret[WatcherThread] = "ok") =>
             \A i \in 1..Len(NodeIDs(cfg)) :
                cache[NodeIDs(cfg)[i]].Version = VersionStr(version))

\* the container "cache" has been registered a second time by a start event:
\* the registration was an accepted Update, the second mutation, and the map
\* holds the one service as before
C35_Witness ==
    /\ docker.last.kind = "start"
    /\ docker.last.id = "c3"
    /\ docker.last.ret = "ok"
    /\ op[WatcherThread] = "Update"
    /\ pc[WatcherThread] = "idle"
    /\ version = 2
    /\ DOMAIN services = {"cache"}
    /\ \A i \in 1..Len(NodeIDs(cfg)) : cache[NodeIDs(cfg)[i]].Version = "v2"

\* C36 (the upsert always succeeds): a registration by the watcher never ends
\* with an error of the registry; the Update that follows a refused Add is
\* never refused itself, whatever Remove calls run beside it.
C36_UpsertNeverFails ==
    ~(/\ req[WatcherThread] # NoReq
      /\ req[WatcherThread].kind \in {"sync", "start"}
      /\ pc[WatcherThread] = "idle"
      /\ op[WatcherThread] = "Update"
      /\ ret[WatcherThread] = "NotFound")

\* C37 (stop events tolerate absence): a Remove the watcher issues for a name
\* the registry does not hold returns not-found and leaves service map,
\* version, hook count and cache as they were; when the handler of a stop, die
\* or kill event returns and the event handled before it was such an event of
\* the same container, its Remove was refused; and the watcher, once in its
\* event loop, stays in it.
C37_StopTolerant ==
    /\ [][(/\ pc[WatcherThread] = "crit"
           /\ op[WatcherThread] = "Remove"
           /\ arg[WatcherThread].Name \notin DOMAIN services
           /\ pc'[WatcherThread] # "crit") =>
             /\ ret'[WatcherThread] = "NotFound"
             /\ pc'[WatcherThread] = "idle"
             /\ services' = services
             /\ version' = version
             /\ hookCalls' = hookCalls
             /\ cache' = cache]_vars
    /\ [][(/\ StopHandled
           /\ docker.last.kind \in StopActions
           /\ docker.last.id = req[WatcherThread].id) =>
             /\ ret[WatcherThread] = "NotFound"
             /\ docker'.phase = "events"]_vars
    /\ [][docker.phase = "events" => docker'.phase = "events"]_vars

\* the service web was added and removed by the events of its container, and
\* a further stop event of that container has been handled: not found
C37_Witness ==
    /\ docker.last.kind \in StopActions
    /\ docker.last.id = "c1"
    /\ docker.last.ret = "NotFound"
    /\ docker.phase = "events"
    /\ req[WatcherThread] = NoReq
    /\ version = 2
    /\ DOMAIN services = {}

\* C38 (opt-in and label validation): a step in which the watcher takes up an
\* event or a sync entry of a container that has not opted in, or a start or
\* sync entry of a container without domain, without a port of digits or
\* without an address, starts no registry call and leaves service map,
\* version, hook count and cache as they are; so every service in the registry
\* was registered for a container that opted in with valid labels.
C38_LabelValidation ==
    /\ [][\A id \in ContainerIDs :
             (/\ EventOf(id)
              /\ \/ ~OptedIn(id)
                 \/ /\ id \notin docker.running \/ id \in docker.todo
                    /\ ~Registrable(id)) =>
                UNCHANGED <<services, version, hookCalls, cache, pc, op, arg, req>>]_vars
    /\ [](\A id \in DOMAIN docker.names : OptedIn(id) /\ Registrable(id))
    /\ []((pc[WatcherThread] = "idle" /\ req[WatcherThread] = NoReq) =>
             version = hookCalls)

\* every mislabelled container is running and has been seen by the watcher,
\* which is in its event loop: the registry holds only the service of the
\* well-labelled one, after one mutation
C38_Witness ==
    /\ docker.phase = "events"
    /\ docker.running = Labelled
    /\ req[WatcherThread] = NoReq
    /\ version = 1
    /\ hookCalls = 1
    /\ DOMAIN services = {"cache"}
    /\ DOMAIN docker.names = {"c3"}
====
